---- MODULE Spec2Model ----
(***************************************************************************)
(* A model of the WSJT-X UDP monitor (src/wsjtxmon.py) and of the QColor   *)
(* serializer (src/QColor.py).                                             *)
(*                                                                         *)
(* Representation.  A byte string is a sequence of numbers in 0..255.  A   *)
(* Python str is the sequence of its code points.  Python integers are     *)
(* unbounded while TLC's are 32-bit, so a non-negative Python int read     *)
(* from the wire is kept as its canonical big-endian base-256 digits       *)
(* (no leading zero digit; 0 is the empty sequence): two such values are   *)
(* equal as sequences exactly when the Python ints are equal.  Small       *)
(* integers that the code itself bounds (colour channels, flags, slice     *)
(* indexes into a received buffer) are ordinary numbers.                   *)
(*                                                                         *)
(* The modules `decode` and `encode` that both source files import are not *)
(* part of src/.  They are modelled from sections 4.1 and 4.2 of the       *)
(* specification.  Where the specification leaves their behaviour open     *)
(* (a read of fewer bytes than the field needs, bytes that are not UTF-8)  *)
(* the variable `lib`, chosen in Init and never changed, selects one of    *)
(* the behaviours a Python implementation can have.                        *)
(***************************************************************************)
EXTENDS Integers, Sequences, FiniteSets, TLC

VARIABLES
    Message,    \* self.Message: the last parsed message, a list
    Reply,      \* self.Reply: the stored reply bytes
    Schema,     \* self.Schema: the retained schema number
    lib,        \* behaviour of the imported decode/encode modules
    last,       \* what the last call was, its input and its outcome
    goodReply,  \* history: self.Reply as left by the last Decode parse that completed
    thr         \* the threads inside get_message on the one object, when there are any

vars == <<Message, Reply, Schema, lib, last, goodReply, thr>>

----------------------------------------------------------------------------
(* Program constants.                                                      *)

MAGIC == <<173, 188, 203, 218>>      \* 0xADBCCBDA
MSG_HEARTBEAT == 0
MSG_STATUS == 1
MSG_DECODE == 2
MSG_CLEAR == 3
MSG_REPLY == 4
MSG_QSO_LOGGED == 5
MSG_CLOSE == 6
MSG_WSPR_DECODE == 10
MSG_ADIF_LOGGED == 12
MSG_HIGHLIGHT_CALL == 13
MSG_SOCKET_ERROR == 97
MSG_TIMEOUT == 98
MSG_NONE == 99
RecvBufSize == 2048
\* self.MsgId = "WSJTXMON"
MsgId == <<87, 83, 74, 84, 88, 77, 79, 78>>

----------------------------------------------------------------------------
(* Python integers and slices.                                             *)

Min(a, b) == IF a < b THEN a ELSE b

RECURSIVE Canon(_)
\* The canonical digits of a big-endian digit string: leading zeros dropped.
Canon(b) == IF b # <<>> /\ Head(b) = 0 THEN Canon(Tail(b)) ELSE b

RECURSIVE Num(_)
\* The canonical digits of a small natural number.
Num(n) == IF n = 0 THEN <<>> ELSE Append(Num(n \div 256), n % 256)

RECURSIVE Reverse(_)
Reverse(s) == IF s = <<>> THEN <<>> ELSE Append(Reverse(Tail(s)), Head(s))

\* data[a:b] of Python for 0 <= a: both ends are clamped to the length.
Slice(data, a, b) ==
    LET lo == Min(a, Len(data))
        hi == Min(b, Len(data))
    IN  IF hi <= lo THEN <<>> ELSE SubSeq(data, lo + 1, hi)

\* data[a:]
SliceFrom(data, a) == Slice(data, a, Len(data))

\* A wire value used as a slice index or a length.  A received buffer holds
\* at most RecvBufSize bytes, so every index from RecvBufSize on selects the
\* same (empty) slices and exceeds every remaining length alike.
ToIndex(v) ==
    IF Len(v) > 2 THEN RecvBufSize
    ELSE IF Len(v) = 2 THEN Min(v[1] * 256 + v[2], RecvBufSize)
    ELSE IF Len(v) = 1 THEN v[1]
    ELSE 0

\* The last n digits of v, zero-filled on the left: v masked to n bytes.
PadLeft(v, n) ==
    IF Len(v) >= n THEN SubSeq(v, Len(v) - n + 1, Len(v))
    ELSE [i \in 1..(n - Len(v)) |-> 0] \o v

----------------------------------------------------------------------------
(* The decode and encode modules (specification 4.1, 4.2).                 *)

\* A fixed-width read of n bytes.  With fewer bytes than n the read either
\* fails (specification 4.1, BufferTooShort) or silently uses the bytes it
\* was given (the original "indexes unchecked").
decode_uint(L, data, n, endian) ==
    IF Len(data) < n /\ L.shortRead = "raise"
    THEN [ok |-> FALSE, v |-> <<>>]
    ELSE [ok |-> TRUE,
          v |-> Canon(IF endian = "big" THEN Slice(data, 0, n)
                      ELSE Reverse(Slice(data, 0, n)))]

decode_byte(L, data) == decode_uint(L, data, 1, "big")
decode_uword(L, data, endian) == decode_uint(L, data, 2, endian)
decode_ulong(L, data, endian) == decode_uint(L, data, 4, endian)
decode_uquad(L, data, endian) == decode_uint(L, data, 8, endian)

\* A signed 32-bit read: the sign and the magnitude of the two's complement
\* value, v |-> <<sign, magnitude digits>> with sign 1 for a negative value.
RECURSIVE Increment(_)
Increment(b) ==
    IF b = <<>> THEN <<1>>
    ELSE IF b[Len(b)] < 255 THEN [b EXCEPT ![Len(b)] = @ + 1]
    ELSE Append(Increment(SubSeq(b, 1, Len(b) - 1)), 0)

decode_long(L, data, endian) ==
    LET raw == IF endian = "big" THEN Slice(data, 0, 4) ELSE Reverse(Slice(data, 0, 4))
    IN  IF Len(data) < 4 /\ L.shortRead = "raise"
        THEN [ok |-> FALSE, v |-> <<>>]
        ELSE IF raw # <<>> /\ raw[1] >= 128
             THEN [ok |-> TRUE,
                   v |-> <<1>> \o Canon(Increment([i \in 1..Len(raw) |-> 255 - raw[i]]))]
             ELSE [ok |-> TRUE, v |-> <<0>> \o Canon(raw)]

\* An IEEE double read.  The value is kept as the eight bytes read: the
\* model does no floating point arithmetic.
decode_double(L, data) ==
    IF Len(data) < 8 /\ L.shortRead = "raise"
    THEN [ok |-> FALSE, v |-> <<>>]
    ELSE [ok |-> TRUE, v |-> Slice(data, 0, 8)]

encode_byte(v) == PadLeft(v, 1)
encode_ulong(v, endian) == IF endian = "big" THEN PadLeft(v, 4) ELSE Reverse(PadLeft(v, 4))
encode_uword(v, endian) == IF endian = "big" THEN PadLeft(v, 2) ELSE Reverse(PadLeft(v, 2))

\* The number of bytes (1..4) the UTF-8 sequence led by byte b0 has, 0 when
\* b0 cannot lead a sequence.
Utf8Need(b0) ==
    IF b0 < 128 THEN 1
    ELSE IF b0 >= 194 /\ b0 <= 223 THEN 2
    ELSE IF b0 >= 224 /\ b0 <= 239 THEN 3
    ELSE IF b0 >= 240 /\ b0 <= 244 THEN 4
    ELSE 0

\* Whether b1 may follow the lead byte b0 (the ranges that exclude overlong
\* forms, surrogates and code points above U+10FFFF).
Utf8Second(b0, b1) ==
    IF b0 = 224 THEN b1 >= 160 /\ b1 <= 191
    ELSE IF b0 = 237 THEN b1 >= 128 /\ b1 <= 159
    ELSE IF b0 = 240 THEN b1 >= 144 /\ b1 <= 191
    ELSE IF b0 = 244 THEN b1 >= 128 /\ b1 <= 143
    ELSE b1 >= 128 /\ b1 <= 191

Utf8Cont(b) == b >= 128 /\ b <= 191

\* How many bytes of b, from index i (1-based), form a valid prefix of one
\* UTF-8 sequence.
Utf8Good(b, i) ==
    LET n == Utf8Need(b[i])
    IN  IF n = 0 THEN 0
        ELSE IF n = 1 THEN 1
        ELSE IF i + 1 > Len(b) \/ ~Utf8Second(b[i], b[i + 1]) THEN 1
        ELSE IF n = 2 THEN 2
        ELSE IF i + 2 > Len(b) \/ ~Utf8Cont(b[i + 2]) THEN 2
        ELSE IF n = 3 THEN 3
        ELSE IF i + 3 > Len(b) \/ ~Utf8Cont(b[i + 3]) THEN 3
        ELSE 4

Utf8Point(b, i, n) ==
    IF n = 1 THEN b[i]
    ELSE IF n = 2 THEN (b[i] - 192) * 64 + (b[i + 1] - 128)
    ELSE IF n = 3 THEN (b[i] - 224) * 4096 + (b[i + 1] - 128) * 64 + (b[i + 2] - 128)
    ELSE (b[i] - 240) * 262144 + (b[i + 1] - 128) * 4096
         + (b[i + 2] - 128) * 64 + (b[i + 3] - 128)

RECURSIVE Utf8Decode(_, _, _)
\* bytes.decode('utf-8') from index i: the code points, or a failure.  On
\* bytes that are not UTF-8 the strict handler fails, "replace" puts U+FFFD
\* in place of the offending bytes.
Utf8Decode(L, b, i) ==
    LET then(c, rest) == [ok |-> rest.ok, s |-> <<c>> \o rest.s]
        \* n bytes are needed at i and the first k of them are good
        char(n, k) ==
            IF n > 0 /\ k = n THEN then(Utf8Point(b, i, n), Utf8Decode(L, b, i + n))
            ELSE IF L.utf8 = "strict" THEN [ok |-> FALSE, s |-> <<>>]
            ELSE then(65533, Utf8Decode(L, b, i + (IF k = 0 THEN 1 ELSE k)))
    IN  IF i > Len(b) THEN [ok |-> TRUE, s |-> <<>>]
        ELSE char(Utf8Need(b[i]), Utf8Good(b, i))

\* decode.string(data, length, 'utf-8'): the first `length` bytes as text.
decode_string(L, data, length) ==
    IF Len(data) < length /\ L.shortRead = "raise"
    THEN [ok |-> FALSE, s |-> <<>>]
    ELSE Utf8Decode(L, Slice(data, 0, length), 1)

Utf8Char(c) ==
    IF c < 128 THEN <<c>>
    ELSE IF c < 2048 THEN <<192 + (c \div 64), 128 + (c % 64)>>
    ELSE IF c < 65536 THEN <<224 + (c \div 4096), 128 + ((c \div 64) % 64), 128 + (c % 64)>>
    ELSE <<240 + (c \div 262144), 128 + ((c \div 4096) % 64),
           128 + ((c \div 64) % 64), 128 + (c % 64)>>

RECURSIVE encode_string(_)
\* encode.string(s): the UTF-8 bytes of s, no length and no terminator.
encode_string(s) == IF s = <<>> THEN <<>> ELSE Utf8Char(Head(s)) \o encode_string(Tail(s))

----------------------------------------------------------------------------
(* Number formatting.                                                      *)

RECURSIVE BigDivMod(_, _, _, _)
\* Long division of the digit string v by the small number d, from digit i,
\* with remainder r carried in: the quotient's digits and the remainder.
BigDivMod(v, d, i, r) ==
    LET digit(cur, rest) == [q |-> <<cur \div d>> \o rest.q, r |-> rest.r]
    IN  IF i > Len(v) THEN [q |-> <<>>, r |-> r]
        ELSE digit(r * 256 + v[i], BigDivMod(v, d, i + 1, (r * 256 + v[i]) % d))

\* v // d and v % d for a non-negative Python int v.
DivMod(v, d) ==
    LET canon(x) == [q |-> Canon(x.q), r |-> x.r]
    IN  canon(BigDivMod(v, d, 1, 0))

RECURSIVE Decimal(_)
\* str(v) for a non-negative Python int v, as character codes.
Decimal(v) ==
    LET digits(x) == IF x.q = <<>> THEN <<48 + x.r>> ELSE Append(Decimal(x.q), 48 + x.r)
    IN  digits(DivMod(v, 10))

\* s right-justified in a field of width w, filled with character c.
Justify(s, w, c) == IF Len(s) >= w THEN s ELSE [i \in 1..(w - Len(s)) |-> c] \o s

\* "%02d" % v and "%4d" % v
Fmt02d(v) == Justify(Decimal(v), 2, 48)
Fmt4d(v) == Justify(Decimal(v), 4, 32)

\* ("%+02d" % x).zfill(3) for a signed x = <<sign>> \o magnitude: the sign
\* always, then the digits zero-filled so that the whole is 3 wide.
FmtSnr(x) == <<IF x[1] = 1 THEN 45 ELSE 43>> \o Justify(Decimal(Tail(x)), 2, 48)

\* str(x) for a signed x.
FmtSigned(x) == (IF x[1] = 1 THEN <<45>> ELSE <<>>) \o Decimal(Tail(x))

\* "%+.1f" % x for a double x: an uninterpreted rendering, the format
\* followed by the bytes of the double.
FmtDouble(x) == <<37, 43, 46, 49, 102>> \o x

\* int(a / b) on values small enough to be exact.
_make_time_str(elapsed_ms) ==
    LET \* h.q is hours, h.r is remaining_seconds
        split(h) == <<h.q, Num(h.r \div 60), Num(h.r - ((h.r \div 60) * 60))>>
        time_str(hms) == Fmt02d(hms[1]) \o Fmt02d(hms[2]) \o Fmt02d(hms[3])
    IN  time_str(split(DivMod(DivMod(elapsed_ms, 1000).q, 3600)))


\* int(a / b) of Python for b > 0: the quotient truncated toward zero.
TruncDiv(a, b) == IF a >= 0 THEN a \div b ELSE -((-a) \div b)

\* The value of a digit string of at most three digits as a number.
Small(v) ==
    IF Len(v) = 0 THEN 0
    ELSE IF Len(v) = 1 THEN v[1]
    ELSE IF Len(v) = 2 THEN v[1] * 256 + v[2]
    ELSE v[1] * 65536 + v[2] * 256 + v[3]

\* "%0wd" % n for a number n of either sign.
FmtZero(n, w) ==
    IF n < 0 THEN <<45>> \o Justify(Decimal(Num(-n)), w - 1, 48)
    ELSE Justify(Decimal(Num(n)), w, 48)

\* _make_date_str.  The floating point constants are written as fractions:
\* 1867216.25/36524.25 = 7468865/146097, (B-122.1)/365.25 = (20B-2442)/7305,
\* 365.25 C = 1461 C / 4, 30.6001 = 306001/10000.  Julian days of more than
\* three digits (from 2^24, the year 41222) get an uninterpreted rendering.
_make_date_str(julian_day) ==
    LET fromMonth(C, month, day) ==
            <<IF month < 3 THEN C - 4715 ELSE C - 4716, month, day>>
        fromE(B, C, D, E) ==
            fromMonth(C, IF E - 1 > 12 THEN E - 1 - 12 ELSE E - 1,
                      B - D - TruncDiv(306001 * E, 10000))
        fromD(B, C, D) == fromE(B, C, D, TruncDiv(10000 * (B - D), 306001))
        fromC(B, C) == fromD(B, C, TruncDiv(1461 * C, 4))
        fromB(B) == fromC(B, TruncDiv(20 * B - 2442, 7305))
        fromW(Z, W) == fromB(Z + 1 + W - TruncDiv(W, 4) + 1524)
        fromZ(Z) == fromW(Z, TruncDiv(4 * Z - 7468865, 146097))
        date_str(ymd) == FmtZero(ymd[1], 4) \o FmtZero(ymd[2], 2) \o FmtZero(ymd[3], 2)
    IN  IF Len(julian_day) > 3 THEN <<74, 68>> \o julian_day
        ELSE date_str(fromZ(Small(julian_day)))

----------------------------------------------------------------------------
(* The per-type parsers.  Each reads its fields one after another at its   *)
(* `index`; the reads are written as the list of the kinds of field, in    *)
(* the order of the source's statements.  Each parser yields ok (FALSE     *)
(* when an exception left it), the message it assigned to self.Message     *)
(* and the value it left in self.Reply, as <<value>>, or <<>> when it      *)
(* assigned none (only _parse_decode writes self.Reply).                   *)

NullString == <<255, 255, 255, 255>>

\* The default byte order of the decode functions called without one.
DefaultEndian == "big"

_parse_utf8(L, data) ==
    LET utf8_len == decode_ulong(L, Slice(data, 0, 4), "big")
        decoded(s) == [ok |-> s.ok, len |-> ToIndex(utf8_len.v), str |-> s.s]
    IN  IF ~utf8_len.ok THEN [ok |-> FALSE, len |-> 0, str |-> <<>>]
        ELSE IF utf8_len.v = NullString THEN [ok |-> TRUE, len |-> 0, str |-> <<>>]
        ELSE decoded(decode_string(L, SliceFrom(data, 4), ToIndex(utf8_len.v)))

\* A parser before its first read: ok until a read raises, its index, the
\* values read so far (vals), the index each was read at (at) and the
\* amount index advanced by after each (n).
Start == [ok |-> TRUE, index |-> 0, vals |-> <<>>, at |-> <<>>, n |-> <<>>]

\* A plausible slip: index advanced by the string length without the four
\* bytes of the length prefix.
Utf8ReadNoPrefix(r) == [ok |-> r.ok, v |-> r.str, n |-> r.len]

\* What a read leaves: whether it returned, the value and the amount index
\* advances by.
Utf8Read(r) == [ok |-> r.ok, v |-> r.str, n |-> 4 + r.len]
FixedRead(r, n) == [ok |-> r.ok, v |-> r.v, n |-> n]
\* The read under a condition that is false: the initial 0 stays.
NoRead == [ok |-> TRUE, v |-> Num(0), n |-> 0]

\* A plausible slip: the window byte read without the test that a byte is
\* left.
ReadFieldWindowAlways(L, kind, data, i, prev) ==
    CASE kind = "utf8" -> Utf8Read(_parse_utf8(L, SliceFrom(data, i)))
      [] kind = "byte" -> FixedRead(decode_byte(L, Slice(data, i, i + 1)), 1)
      [] kind = "ulong" -> FixedRead(decode_ulong(L, Slice(data, i, i + 4), DefaultEndian), 4)
      [] kind = "long" -> FixedRead(decode_long(L, Slice(data, i, i + 4), DefaultEndian), 4)
      [] kind = "uquad" -> FixedRead(decode_uquad(L, Slice(data, i, i + 8), DefaultEndian), 8)
      [] kind = "double" -> FixedRead(decode_double(L, Slice(data, i, i + 8)), 8)
      [] kind = "tz" ->
            IF prev = Num(2)
            THEN FixedRead(decode_long(L, Slice(data, i, i + 4), DefaultEndian), 4)
            ELSE NoRead
      [] kind = "window" ->
            FixedRead(decode_byte(L, Slice(data, i, i + 1)), 1)

\* A plausible slip: the timezone offset read for every timespec other than
\* 0 (if (timespec): in place of if (timespec == 2):).
ReadFieldTzIfTimespec(L, kind, data, i, prev) ==
    CASE kind = "utf8" -> Utf8Read(_parse_utf8(L, SliceFrom(data, i)))
      [] kind = "byte" -> FixedRead(decode_byte(L, Slice(data, i, i + 1)), 1)
      [] kind = "ulong" -> FixedRead(decode_ulong(L, Slice(data, i, i + 4), DefaultEndian), 4)
      [] kind = "long" -> FixedRead(decode_long(L, Slice(data, i, i + 4), DefaultEndian), 4)
      [] kind = "uquad" -> FixedRead(decode_uquad(L, Slice(data, i, i + 8), DefaultEndian), 8)
      [] kind = "double" -> FixedRead(decode_double(L, Slice(data, i, i + 8)), 8)
      [] kind = "tz" ->
            IF prev # Num(0)
            THEN FixedRead(decode_long(L, Slice(data, i, i + 4), DefaultEndian), 4)
            ELSE NoRead
      [] kind = "window" ->
            IF i < Len(data) THEN FixedRead(decode_byte(L, Slice(data, i, i + 1)), 1)
            ELSE NoRead

\* The statements that read one field of the given kind at index i:
\*   "utf8"    x_len, x_str = self._parse_utf8(data[i:]);  index += 4 + x_len
\*   "byte"    x = decode.byte(data[i:i+1]);               index += 1
\*   "ulong"   x = decode.ulong(data[i:i+4]);              index += 4
\*   "long"    x = decode.long(data[i:i+4]);               index += 4
\*   "uquad"   x = decode.uquad(data[i:i+8]);              index += 8
\*   "double"  x = decode.double(data[i:i+8]);             index += 8
\*   "tz"      tz_offset = 0; if (timespec == 2): a "long" read
\*   "window"  window = 0; if (index < len(data)): a "byte" read
\* prev is the value read just before (the timespec, for "tz").
ReadField(L, kind, data, i, prev) ==
    CASE kind = "utf8" -> Utf8Read(_parse_utf8(L, SliceFrom(data, i)))
      [] kind = "byte" -> FixedRead(decode_byte(L, Slice(data, i, i + 1)), 1)
      [] kind = "ulong" -> FixedRead(decode_ulong(L, Slice(data, i, i + 4), DefaultEndian), 4)
      [] kind = "long" -> FixedRead(decode_long(L, Slice(data, i, i + 4), DefaultEndian), 4)
      [] kind = "uquad" -> FixedRead(decode_uquad(L, Slice(data, i, i + 8), DefaultEndian), 8)
      [] kind = "double" -> FixedRead(decode_double(L, Slice(data, i, i + 8)), 8)
      [] kind = "tz" ->
            IF prev = Num(2)
            THEN FixedRead(decode_long(L, Slice(data, i, i + 4), DefaultEndian), 4)
            ELSE NoRead
      [] kind = "window" ->
            IF i < Len(data) THEN FixedRead(decode_byte(L, Slice(data, i, i + 1)), 1)
            ELSE NoRead

\* The parser after the read r at its index: an exception stops it.
Advance(st, r) ==
    IF r.ok
    THEN [ok |-> TRUE, index |-> st.index + r.n, vals |-> Append(st.vals, r.v),
          at |-> Append(st.at, st.index), n |-> Append(st.n, r.n)]
    ELSE [st EXCEPT !.ok = FALSE]

RECURSIVE ReadFields(_, _, _, _)
\* The reads of the given kinds, one after another, until one raises.
ReadFields(L, kinds, data, st) ==
    IF kinds = <<>> \/ ~st.ok THEN st
    ELSE ReadFields(L, Tail(kinds), data,
                    Advance(st, ReadField(L, Head(kinds), data, st.index,
                                          IF st.vals = <<>> THEN <<>>
                                          ELSE st.vals[Len(st.vals)])))

Raised == [ok |-> FALSE, msg |-> <<>>, reply |-> <<>>]

_parse_adif_logged(L, data) ==
    LET assigned(st) ==
            IF ~st.ok THEN Raised
            ELSE [ok |-> TRUE, msg |-> <<Num(MSG_ADIF_LOGGED), st.vals[1], st.vals[2]>>,
                  reply |-> <<>>]
    IN  assigned(ReadFields(L, <<"utf8", "utf8">>, data, Start))

_parse_clear(L, data) ==
    LET assigned(st) ==
            IF ~st.ok THEN Raised
            ELSE [ok |-> TRUE, msg |-> <<Num(MSG_CLEAR), st.vals[1], st.vals[2]>>,
                  reply |-> <<>>]
    IN  assigned(ReadFields(L, <<"utf8", "window">>, data, Start))

_parse_close(L, data) ==
    LET assigned(st) ==
            IF ~st.ok THEN Raised
            ELSE [ok |-> TRUE, msg |-> <<Num(MSG_CLOSE), st.vals[1]>>, reply |-> <<>>]
    IN  assigned(ReadFields(L, <<"utf8">>, data, Start))

_parse_heartbeat(L, data) ==
    LET assigned(st) ==
            IF ~st.ok THEN Raised
            ELSE [ok |-> TRUE,
                  msg |-> <<Num(MSG_HEARTBEAT), st.vals[1], st.vals[2], st.vals[3],
                            st.vals[4]>>,
                  reply |-> <<>>]
    IN  assigned(ReadFields(L, <<"utf8", "ulong", "utf8", "utf8">>, data, Start))

\* A plausible slip: the reply header written with schema 0, the value
\* self.Schema has before any datagram arrived.
ReplyHeaderStale(schema) ==
    encode_ulong(MAGIC, "big") \o encode_ulong(Num(0), "big")
        \o encode_ulong(Num(MSG_REPLY), "big")
        \o encode_ulong(Num(Len(MsgId)), "big") \o encode_string(MsgId)

\* The reply buffer as _parse_decode initializes it.
ReplyHeader(schema) ==
    encode_ulong(MAGIC, "big") \o encode_ulong(schema, "big")
        \o encode_ulong(Num(MSG_REPLY), "big")
        \o encode_ulong(Num(Len(MsgId)), "big") \o encode_string(MsgId)

\* The fields of a Decode message: id, new, elapsed_ms, snr, delta_time,
\* freq, mode, msg, low_conf, off_air.
DecodeFields ==
    <<"utf8", "byte", "ulong", "long", "double", "ulong", "utf8", "utf8", "byte", "byte">>

\* What _parse_decode appends to self.Reply once field k is read: nothing
\* for id and new, the field's bytes for the numeric fields and for
\* low_conf, the four length bytes and the re-encoded string for mode and
\* msg, and the modifiers byte after off_air.
DecodeEcho(data, st, k) ==
    IF k \in {3, 4, 5, 6, 9} THEN Slice(data, st.at[k], st.at[k] + st.n[k])
    ELSE IF k \in {7, 8}
    THEN Slice(data, st.at[k], st.at[k] + 4) \o encode_string(st.vals[k])
    ELSE IF k = 10 THEN encode_byte(Num(0))
    ELSE <<>>

RECURSIVE DecodeEchoes(_, _, _, _)
\* What is appended to self.Reply for the fields from..to.
DecodeEchoes(data, st, from, to) ==
    IF to < from THEN <<>>
    ELSE DecodeEchoes(data, st, from, to - 1) \o DecodeEcho(data, st, to)

\* _parse_decode with self.Schema = schema.  The reply is built in self.Reply
\* as the fields are read, so an exception leaves the part built so far.
_parse_decode(L, data, schema) ==
    LET assigned(st) ==
            [ok |-> st.ok,
             msg |-> IF ~st.ok THEN <<>>
                     ELSE <<Num(MSG_DECODE), st.vals[1], st.vals[2],
                            _make_time_str(st.vals[3]), FmtSnr(st.vals[4]),
                            FmtDouble(st.vals[5]), Fmt4d(st.vals[6]), st.vals[7],
                            st.vals[8], st.vals[9], st.vals[10]>>,
             reply |-> <<ReplyHeader(schema) \o DecodeEchoes(data, st, 1, Len(st.vals))>>]
    IN  assigned(ReadFields(L, DecodeFields, data, Start))

\* The fields of a Status message: id, freq, mode, dxcall, report, txmode,
\* tx_enable, tx_now, decoding, rx_df, tx_df, decall, degrid, dxgrid,
\* tx_watchdog, submode, fastmode, specialopmode, freq_tol, tr_period,
\* cfgname.
StatusFields ==
    <<"utf8", "uquad", "utf8", "utf8", "utf8", "utf8", "byte", "byte", "byte", "ulong",
      "ulong", "utf8", "utf8", "utf8", "byte", "utf8", "byte", "byte", "ulong", "ulong",
      "utf8">>

\* A plausible slip: the submode left as it was read.
_parse_status_no_placeholder(L, data) ==
    LET assigned(st) ==
            IF ~st.ok THEN Raised
            ELSE [ok |-> TRUE,
                  msg |-> <<Num(MSG_STATUS)>> \o SubSeq(st.vals, 1, 9)
                            \o <<st.vals[11], st.vals[10]>> \o SubSeq(st.vals, 12, 21),
                  reply |-> <<>>]
    IN  assigned(ReadFields(L, StatusFields, data, Start))

_parse_status(L, data) ==
    LET assigned(st) ==
            IF ~st.ok THEN Raised
            ELSE [ok |-> TRUE,
                  msg |-> <<Num(MSG_STATUS)>> \o SubSeq(st.vals, 1, 9)
                            \o <<st.vals[11], st.vals[10]>> \o SubSeq(st.vals, 12, 15)
                            \o <<IF st.n[16] - 4 = 0 THEN <<46>> ELSE st.vals[16]>>
                            \o SubSeq(st.vals, 17, 21),
                  reply |-> <<>>]
    IN  assigned(ReadFields(L, StatusFields, data, Start))

\* The fields of a QsoLogged message: id, date_off, time_off, timespec,
\* tz_offset, dxcall, dxgrid, freq, mode, report_sent, report_recd, power,
\* comments, name, date_on, time_on, timespec, tz_offset, opcall, mycall,
\* mygrid, exch_sent, exch_rcvd.
QsoFields ==
    <<"utf8", "uquad", "ulong", "byte", "tz", "utf8", "utf8", "uquad", "utf8", "utf8",
      "utf8", "utf8", "utf8", "utf8", "uquad", "ulong", "byte", "tz", "utf8", "utf8",
      "utf8", "utf8", "utf8">>

_parse_qso_logged(L, data) ==
    LET assigned(st) ==
            IF ~st.ok THEN Raised
            ELSE [ok |-> TRUE,
                  msg |-> <<Num(MSG_QSO_LOGGED), st.vals[1], _make_date_str(st.vals[2]),
                            _make_time_str(st.vals[3])>> \o SubSeq(st.vals, 6, 14)
                            \o <<_make_date_str(st.vals[15]), _make_time_str(st.vals[16])>>
                            \o SubSeq(st.vals, 19, 23),
                  reply |-> <<>>]
    IN  assigned(ReadFields(L, QsoFields, data, Start))

\* The fields of a WSPRDecode message: id, new, elapsed_ms, snr, delta_time,
\* freq, drift, dxcall, dxgrid, dbm, off_air.
WsprFields ==
    <<"utf8", "byte", "ulong", "long", "double", "uquad", "long", "utf8", "utf8", "long",
      "byte">>

_parse_wspr_decode(L, data) ==
    LET assigned(st) ==
            IF ~st.ok THEN Raised
            ELSE [ok |-> TRUE,
                  msg |-> <<Num(MSG_WSPR_DECODE), st.vals[1], st.vals[2],
                            _make_time_str(st.vals[3]), FmtSnr(st.vals[4]),
                            FmtDouble(st.vals[5]), Justify(Decimal(st.vals[6]), 6, 32),
                            st.vals[8], st.vals[9], FmtSigned(st.vals[10]), st.vals[11]>>,
                  reply |-> <<>>]
    IN  assigned(ReadFields(L, WsprFields, data, Start))

----------------------------------------------------------------------------
(* Frame validation and dispatch.                                          *)

\* A plausible slip: the QsoLogged branch tests the wrong message number.
ParserOfWrongQso(msg_num) ==
    IF msg_num = Num(MSG_HEARTBEAT) THEN "heartbeat"
    ELSE IF msg_num = Num(MSG_STATUS) THEN "status"
    ELSE IF msg_num = Num(MSG_DECODE) THEN "decode"
    ELSE IF msg_num = Num(MSG_CLEAR) THEN "clear"
    ELSE IF msg_num = Num(MSG_REPLY) THEN "qso_logged"
    ELSE IF msg_num = Num(MSG_CLOSE) THEN "close"
    ELSE IF msg_num = Num(MSG_WSPR_DECODE) THEN "wspr_decode"
    ELSE IF msg_num = Num(MSG_ADIF_LOGGED) THEN "adif_logged"
    ELSE "none"

\* The per-type parser _parse_data calls for message number msg_num, "none"
\* when the number is not supported.
ParserOf(msg_num) ==
    IF msg_num = Num(MSG_HEARTBEAT) THEN "heartbeat"
    ELSE IF msg_num = Num(MSG_STATUS) THEN "status"
    ELSE IF msg_num = Num(MSG_DECODE) THEN "decode"
    ELSE IF msg_num = Num(MSG_CLEAR) THEN "clear"
    ELSE IF msg_num = Num(MSG_QSO_LOGGED) THEN "qso_logged"
    ELSE IF msg_num = Num(MSG_CLOSE) THEN "close"
    ELSE IF msg_num = Num(MSG_WSPR_DECODE) THEN "wspr_decode"
    ELSE IF msg_num = Num(MSG_ADIF_LOGGED) THEN "adif_logged"
    ELSE "none"


\* The parser named p on the payload.
RunParser(L, p, payload, schema) ==
    CASE p = "heartbeat" -> _parse_heartbeat(L, payload)
      [] p = "status" -> _parse_status(L, payload)
      [] p = "decode" -> _parse_decode(L, payload, schema)
      [] p = "clear" -> _parse_clear(L, payload)
      [] p = "qso_logged" -> _parse_qso_logged(L, payload)
      [] p = "close" -> _parse_close(L, payload)
      [] p = "wspr_decode" -> _parse_wspr_decode(L, payload)
      [] p = "adif_logged" -> _parse_adif_logged(L, payload)

\* A plausible slip: the magic number is read and never compared.
MagicUnchecked(magic_num) == Len(magic_num) <= 4

\* if (magic_num == self.MAGIC)
MagicOk(magic_num) == magic_num = MAGIC

\* _parse_data: whether it returned (ok) or an exception left it, the value
\* it left in self.Message, the values it assigned to self.Reply and to
\* self.Schema (<<value>>, or <<>> when it assigned none) and the per-type
\* parser it ran.
_parse_data(L, data) ==
    LET none == <<Num(MSG_NONE)>>
        magic_num == decode_ulong(L, Slice(data, 0, 4), "big")
        new_schema == decode_ulong(L, Slice(data, 4, 8), "big")
        msg_num == decode_ulong(L, Slice(data, 8, 12), "big")
        parsed(r) ==
            [ok |-> r.ok, msg |-> IF r.ok THEN r.msg ELSE none, reply |-> r.reply,
             schema |-> <<new_schema.v>>, ran |-> ParserOf(msg_num.v)]
    IN  IF ~magic_num.ok \/ ~new_schema.ok
        THEN [ok |-> FALSE, msg |-> none, reply |-> <<>>, schema |-> <<>>, ran |-> "none"]
        ELSE IF ~msg_num.ok
        THEN [ok |-> FALSE, msg |-> none, reply |-> <<>>, schema |-> <<new_schema.v>>,
              ran |-> "none"]
        ELSE IF ~MagicOk(magic_num.v)
        THEN [ok |-> TRUE, msg |-> none, reply |-> <<>>, schema |-> <<new_schema.v>>,
              ran |-> "none"]
        ELSE IF ParserOf(msg_num.v) = "none"
        THEN [ok |-> TRUE, msg |-> <<msg_num.v>>, reply |-> <<>>,
              schema |-> <<new_schema.v>>, ran |-> "none"]
        ELSE parsed(RunParser(L, ParserOf(msg_num.v), SliceFrom(data, 12), new_schema.v))

\* str(err) of a caught exception: its text is not modelled.
ErrText == <<101, 114, 114>>

\* get_message when recvfrom returns data: the status it returns, the
\* message it leaves and what _parse_data assigned.
get_message(L, data) ==
    LET returned(r) ==
            IF r.ok
            THEN [status |-> TRUE, msg |-> r.msg, reply |-> r.reply,
                  schema |-> r.schema, ran |-> r.ran]
            ELSE [status |-> FALSE, msg |-> <<Num(MSG_SOCKET_ERROR), ErrText>>,
                  reply |-> r.reply, schema |-> r.schema, ran |-> r.ran]
    IN  returned(_parse_data(L, data))


----------------------------------------------------------------------------
(* QColor (src/QColor.py).  A colour object is a record of its fields; an  *)
(* optional argument is <<>> for None and <<v>> for the value v.           *)

CSPEC_INVALID == 0
CSPEC_RGB == 1
COLOR_BLACK == 2
COLOR_WHITE == 3
COLOR_DARK_GRAY == 4
COLOR_GRAY == 5
COLOR_LIGHT_GRAY == 6
COLOR_RED == 7
COLOR_GREEN == 8
COLOR_BLUE == 9
COLOR_CYAN == 10
COLOR_MAGENTA == 11
COLOR_YELLOW == 12
COLOR_DARK_RED == 13
COLOR_DARK_GREEN == 14
COLOR_DARK_BLUE == 15
COLOR_DARK_CYAN == 16
COLOR_DARK_MAGENTA == 17
COLOR_DARK_YELLOW == 18
COLOR_TRANSPARENT == 19
COLOR_ORANGE == 20
COLOR_DARK_VIOLET == 21
COLOR_INVALID == 255

\* The digit of v that is k places from the right (0 for the last one):
\* (v >> 8k) & 0xFF.
ByteAt(v, k) == IF Len(v) > k THEN v[Len(v) - k] ELSE 0

\* rgba_join(red, grn, blu, alpha): the integer whose four bytes are the
\* masked arguments, red in the most significant one.
rgba_join(red, grn, blu, alpha) == Canon(<<red % 256, grn % 256, blu % 256, alpha % 256>>)

rgba_split(rgba) ==
    [red |-> ByteAt(rgba, 3), grn |-> ByteAt(rgba, 2),
     blu |-> ByteAt(rgba, 1), alpha |-> ByteAt(rgba, 0)]

\* A plausible slip: the entry of yellow a copy of the entry of white.
NameTableYellowSlip(name) ==
    IF name = COLOR_BLACK THEN <<0, 0, 0>>
    ELSE IF name = COLOR_WHITE THEN <<255, 255, 255>>
    ELSE IF name = COLOR_DARK_GRAY THEN <<128, 128, 128>>
    ELSE IF name = COLOR_GRAY THEN <<160, 160, 164>>
    ELSE IF name = COLOR_LIGHT_GRAY THEN <<192, 192, 192>>
    ELSE IF name = COLOR_RED THEN <<255, 0, 0>>
    ELSE IF name = COLOR_GREEN THEN <<0, 255, 0>>
    ELSE IF name = COLOR_BLUE THEN <<0, 0, 255>>
    ELSE IF name = COLOR_CYAN THEN <<0, 255, 255>>
    ELSE IF name = COLOR_MAGENTA THEN <<255, 0, 255>>
    ELSE IF name = COLOR_YELLOW THEN <<255, 255, 255>>
    ELSE IF name = COLOR_DARK_RED THEN <<128, 0, 0>>
    ELSE IF name = COLOR_DARK_GREEN THEN <<0, 128, 0>>
    ELSE IF name = COLOR_DARK_BLUE THEN <<0, 0, 128>>
    ELSE IF name = COLOR_DARK_CYAN THEN <<0, 128, 128>>
    ELSE IF name = COLOR_DARK_MAGENTA THEN <<128, 0, 128>>
    ELSE IF name = COLOR_DARK_YELLOW THEN <<128, 128, 0>>
    ELSE IF name = COLOR_ORANGE THEN <<255, 165, 0>>
    ELSE IF name = COLOR_DARK_VIOLET THEN <<148, 0, 211>>
    ELSE IF name = COLOR_TRANSPARENT THEN <<0, 0, 0>>
    ELSE <<>>

\* The RGB triple setByName assigns for a preset name, <<>> for a name that
\* is none of the presets.
NameTable(name) ==
    IF name = COLOR_BLACK THEN <<0, 0, 0>>
    ELSE IF name = COLOR_WHITE THEN <<255, 255, 255>>
    ELSE IF name = COLOR_DARK_GRAY THEN <<128, 128, 128>>
    ELSE IF name = COLOR_GRAY THEN <<160, 160, 164>>
    ELSE IF name = COLOR_LIGHT_GRAY THEN <<192, 192, 192>>
    ELSE IF name = COLOR_RED THEN <<255, 0, 0>>
    ELSE IF name = COLOR_GREEN THEN <<0, 255, 0>>
    ELSE IF name = COLOR_BLUE THEN <<0, 0, 255>>
    ELSE IF name = COLOR_CYAN THEN <<0, 255, 255>>
    ELSE IF name = COLOR_MAGENTA THEN <<255, 0, 255>>
    ELSE IF name = COLOR_YELLOW THEN <<255, 255, 0>>
    ELSE IF name = COLOR_DARK_RED THEN <<128, 0, 0>>
    ELSE IF name = COLOR_DARK_GREEN THEN <<0, 128, 0>>
    ELSE IF name = COLOR_DARK_BLUE THEN <<0, 0, 128>>
    ELSE IF name = COLOR_DARK_CYAN THEN <<0, 128, 128>>
    ELSE IF name = COLOR_DARK_MAGENTA THEN <<128, 0, 128>>
    ELSE IF name = COLOR_DARK_YELLOW THEN <<128, 128, 0>>
    ELSE IF name = COLOR_ORANGE THEN <<255, 165, 0>>
    ELSE IF name = COLOR_DARK_VIOLET THEN <<148, 0, 211>>
    ELSE IF name = COLOR_TRANSPARENT THEN <<0, 0, 0>>
    ELSE <<>>

\* A plausible slip: the transparent preset without the statement that
\* clears alpha.
setByNameTransparentKeepsAlpha(c, name, alpha) ==
    LET a == IF alpha >= 0 THEN alpha ELSE 255
        t == NameTable(name)
    IN  IF name = COLOR_INVALID
        THEN [cspec |-> CSPEC_INVALID, red |-> 65535, grn |-> 65535, blu |-> 65535,
              alpha |-> 65535, pad |-> 0]
        ELSE IF t = <<>>
        THEN [c EXCEPT !.cspec = CSPEC_RGB, !.pad = 0, !.alpha = a]
        ELSE [cspec |-> CSPEC_RGB, red |-> t[1], grn |-> t[2], blu |-> t[3],
              alpha |-> a, pad |-> 0]

\* A plausible slip: the channels of the Invalid colour all ones in a byte.
setByNameInvalidByte(c, name, alpha) ==
    LET a == IF alpha >= 0 THEN alpha ELSE 255
        t == NameTable(name)
    IN  IF name = COLOR_INVALID
        THEN [cspec |-> CSPEC_INVALID, red |-> 255, grn |-> 255, blu |-> 255,
              alpha |-> 255, pad |-> 0]
        ELSE IF t = <<>>
        THEN [c EXCEPT !.cspec = CSPEC_RGB, !.pad = 0, !.alpha = a]
        ELSE [cspec |-> CSPEC_RGB, red |-> t[1], grn |-> t[2], blu |-> t[3],
              alpha |-> IF name = COLOR_TRANSPARENT THEN 0 ELSE a, pad |-> 0]

setByName(c, name, alpha) ==
    LET a == IF alpha >= 0 THEN alpha ELSE 255
        t == NameTable(name)
    IN  IF name = COLOR_INVALID
        THEN [cspec |-> CSPEC_INVALID, red |-> 65535, grn |-> 65535, blu |-> 65535,
              alpha |-> 65535, pad |-> 0]
        ELSE IF t = <<>>
        THEN [c EXCEPT !.cspec = CSPEC_RGB, !.pad = 0, !.alpha = a]
        ELSE [cspec |-> CSPEC_RGB, red |-> t[1], grn |-> t[2], blu |-> t[3],
              alpha |-> IF name = COLOR_TRANSPARENT THEN 0 ELSE a, pad |-> 0]

\* A plausible slip: setByValue without the statement that forces the colour
\* spec to RGB.
setByValueKeepsSpec(c, red, grn, blu, alpha, rgba) ==
    IF rgba # <<>>
    THEN [cspec |-> c.cspec, red |-> ByteAt(rgba[1], 3), grn |-> ByteAt(rgba[1], 2),
          blu |-> ByteAt(rgba[1], 1), alpha |-> ByteAt(rgba[1], 0), pad |-> 0]
    ELSE [cspec |-> c.cspec,
          red |-> IF red >= 0 THEN red % 256 ELSE c.red,
          grn |-> IF grn >= 0 THEN grn % 256 ELSE c.grn,
          blu |-> IF blu >= 0 THEN blu % 256 ELSE c.blu,
          alpha |-> IF alpha >= 0 THEN alpha % 256 ELSE c.alpha,
          pad |-> 0]

\* A plausible slip: the channel arguments applied after the packed value.
setByValueChannelsLast(c, red, grn, blu, alpha, rgba) ==
    LET x == IF rgba # <<>> THEN rgba_split(rgba[1])
             ELSE [red |-> c.red, grn |-> c.grn, blu |-> c.blu, alpha |-> c.alpha]
    IN  [cspec |-> CSPEC_RGB,
         red |-> IF red >= 0 THEN red % 256 ELSE x.red,
         grn |-> IF grn >= 0 THEN grn % 256 ELSE x.grn,
         blu |-> IF blu >= 0 THEN blu % 256 ELSE x.blu,
         alpha |-> IF alpha >= 0 THEN alpha % 256 ELSE x.alpha,
         pad |-> 0]

\* setByValue(red, grn, blu, alpha=alpha, rgba=rgba); rgba is optional.
setByValue(c, red, grn, blu, alpha, rgba) ==
    IF rgba # <<>>
    THEN LET x == rgba_split(rgba[1])
         IN  [cspec |-> CSPEC_RGB, red |-> x.red, grn |-> x.grn, blu |-> x.blu,
              alpha |-> x.alpha, pad |-> 0]
    ELSE [cspec |-> CSPEC_RGB,
          red |-> IF red >= 0 THEN red % 256 ELSE c.red,
          grn |-> IF grn >= 0 THEN grn % 256 ELSE c.grn,
          blu |-> IF blu >= 0 THEN blu % 256 ELSE c.blu,
          alpha |-> IF alpha >= 0 THEN alpha % 256 ELSE c.alpha,
          pad |-> 0]

\* QColor(name=name, rgba=rgba, alpha=alpha); name and rgba are optional.
QColorInit(name, rgba, alpha) ==
    LET c0 == [cspec |-> CSPEC_RGB, red |-> 0, grn |-> 0, blu |-> 0,
               alpha |-> alpha % 256, pad |-> 0]
    IN  IF name # <<>> THEN setByName(c0, name[1], alpha)
        ELSE IF rgba # <<>> THEN setByValue(c0, -1, -1, -1, -1, rgba)
        ELSE c0

\* The colour object after encode(red, grn, blu, alpha).
QColorSet(c, red, grn, blu, alpha) ==
    [c EXCEPT !.red = IF red >= 0 THEN red % 256 ELSE @,
              !.grn = IF grn >= 0 THEN grn % 256 ELSE @,
              !.blu = IF blu >= 0 THEN blu % 256 ELSE @,
              !.alpha = IF alpha >= 0 THEN alpha % 256 ELSE @]

\* A plausible slip: the channels serialized red first and alpha last.
QColorBytesAlphaLast(c) ==
    encode_byte(Num(c.cspec)) \o encode_uword(Num(c.red), "little")
        \o encode_uword(Num(c.grn), "little") \o encode_uword(Num(c.blu), "little")
        \o encode_uword(Num(c.alpha), "little") \o encode_uword(Num(c.pad), "little")

\* The byte array encode() returns for the colour object c.
QColorBytes(c) ==
    encode_byte(Num(c.cspec)) \o encode_uword(Num(c.alpha), "little")
        \o encode_uword(Num(c.red), "little") \o encode_uword(Num(c.grn), "little")
        \o encode_uword(Num(c.blu), "little") \o encode_uword(Num(c.pad), "little")

QColor_encode(c, red, grn, blu, alpha) == QColorBytes(QColorSet(c, red, grn, blu, alpha))

\* The integer a one- or two-byte read returned.
WordValue(v) ==
    IF Len(v) = 0 THEN 0
    ELSE IF Len(v) = 1 THEN v[1]
    ELSE v[Len(v) - 1] * 256 + v[Len(v)]

\* The position of decode() before its first read: status, index, remain
\* and the colour object.
DecodeStart(c, data) == [status |-> TRUE, index |-> 0, remain |-> Len(data), qc |-> c]

\* A plausible slip: the block of a two-byte field entered when one byte
\* remains.
DecodeFieldOneByte(L, s, data, field, n) ==
    IF s.status /\ s.remain >= 1
    THEN [status |-> TRUE, index |-> s.index + n, remain |-> s.remain - n,
          qc |-> [s.qc EXCEPT ![field] =
                      WordValue(decode_uint([L EXCEPT !.shortRead = "partial"],
                                            Slice(data, s.index, s.index + n),
                                            n, "little").v)]]
    ELSE [s EXCEPT !.status = FALSE]

\* One block of decode(): when the status still holds and n more bytes
\* remain, the field is read from data[index:index+n] and the position
\* advances; otherwise the status is cleared.
DecodeField(L, s, data, field, n) ==
    IF s.status /\ s.remain >= n
    THEN [status |-> TRUE, index |-> s.index + n, remain |-> s.remain - n,
          qc |-> [s.qc EXCEPT ![field] =
                      WordValue(decode_uint(L, Slice(data, s.index, s.index + n),
                                            n, "little").v)]]
    ELSE [s EXCEPT !.status = FALSE]

\* A plausible slip: the words read most significant byte first.
QColor_decodeBigEndian(L, c, data) ==
    LET s1 == DecodeField(L, DecodeStart(c, data), data, "cspec", 1)
        rd(s, f) == IF s.status /\ s.remain >= 2
                    THEN [status |-> TRUE, index |-> s.index + 2, remain |-> s.remain - 2,
                          qc |-> [s.qc EXCEPT ![f] =
                                      WordValue(decode_uint(L, Slice(data, s.index, s.index + 2),
                                                            2, "big").v)]]
                    ELSE [s EXCEPT !.status = FALSE]
        s6 == rd(rd(rd(rd(rd(s1, "alpha"), "red"), "grn"), "blu"), "pad")
    IN  [status |-> s6.status, qc |-> s6.qc]

\* decode(data) on the colour object c: the status returned and the object
\* afterwards.
QColor_decode(L, c, data) ==
    LET s1 == DecodeField(L, DecodeStart(c, data), data, "cspec", 1)
        s2 == DecodeField(L, s1, data, "alpha", 2)
        s3 == DecodeField(L, s2, data, "red", 2)
        s4 == DecodeField(L, s3, data, "grn", 2)
        s5 == DecodeField(L, s4, data, "blu", 2)
        s6 == DecodeField(L, s5, data, "pad", 2)
    IN  [status |-> s6.status, qc |-> s6.qc]

----------------------------------------------------------------------------
(* The outbound messages.                                                  *)

\* A plausible slip: the foreground colour appended before the background.
send_highlight_fg_first(schema, call, bg_name, fg_name, bg_rgba, fg_rgba, lastp) ==
    LET bg0 == QColorInit(<<bg_name>>, <<>>, 255)
        fg0 == QColorInit(<<fg_name>>, <<>>, 255)
        ilast == IF lastp THEN 1 ELSE 0
        bgcolor == IF bg_rgba # <<>> THEN setByValue(bg0, -1, -1, -1, -1, bg_rgba) ELSE bg0
        fgcolor == IF fg_rgba # <<>> THEN setByValue(fg0, -1, -1, -1, -1, fg_rgba) ELSE fg0
    IN  encode_ulong(MAGIC, "big") \o encode_ulong(schema, "big")
            \o encode_ulong(Num(MSG_HIGHLIGHT_CALL), "big")
            \o encode_ulong(Num(Len(MsgId)), "big") \o encode_string(MsgId)
            \o encode_ulong(Num(Len(call)), "big") \o encode_string(call)
            \o QColor_encode(fgcolor, -1, -1, -1, -1)
            \o QColor_encode(bgcolor, -1, -1, -1, -1)
            \o encode_byte(Num(ilast))

\* The datagram send_highlight hands to sendto.  call is a str; bg_name and
\* fg_name are colour names; bg_rgba and fg_rgba are optional packed values.
send_highlight(schema, call, bg_name, fg_name, bg_rgba, fg_rgba, lastp) ==
    LET bg0 == QColorInit(<<bg_name>>, <<>>, 255)
        fg0 == QColorInit(<<fg_name>>, <<>>, 255)
        ilast == IF lastp THEN 1 ELSE 0
        bgcolor == IF bg_rgba # <<>> THEN setByValue(bg0, -1, -1, -1, -1, bg_rgba) ELSE bg0
        fgcolor == IF fg_rgba # <<>> THEN setByValue(fg0, -1, -1, -1, -1, fg_rgba) ELSE fg0
    IN  encode_ulong(MAGIC, "big") \o encode_ulong(schema, "big")
            \o encode_ulong(Num(MSG_HIGHLIGHT_CALL), "big")
            \o encode_ulong(Num(Len(MsgId)), "big") \o encode_string(MsgId)
            \o encode_ulong(Num(Len(call)), "big") \o encode_string(call)
            \o QColor_encode(bgcolor, -1, -1, -1, -1)
            \o QColor_encode(fgcolor, -1, -1, -1, -1)
            \o encode_byte(Num(ilast))

\* The bytes send_reply hands to sendto.
send_reply(reply, stored) == IF Len(reply) < 2 THEN stored ELSE reply

----------------------------------------------------------------------------
(* The datagrams the peer sends and the arguments the caller passes.       *)

MaxSchema == 3      \* inbound schema numbers are 2..MaxSchema
MaxDrop == 2        \* truncated datagrams lose 1..MaxDrop trailing bytes

Schemas == {Num(n) : n \in 2..MaxSchema}

\* A length-prefixed string field holding the bytes b.
Field(b) == PadLeft(Num(Len(b)), 4) \o b

Frame(magic, schema, type, payload) ==
    magic \o PadLeft(schema, 4) \o PadLeft(type, 4) \o payload

IdWsjtx == <<87, 83, 74, 84, 45, 88>>           \* "WSJT-X"
ElapsedBytes == <<2, 174, 165, 64>>             \* 45000000 ms
SnrBytes == <<255, 255, 255, 251>>              \* -5
DtBytes == <<63, 225, 1, 2, 3, 4, 5, 6>>
DfBytes == <<0, 0, 5, 220>>                     \* 1500

\* The payload of a Decode message with the given id, mode field, text
\* field and flags.
DecodePayload(id, modeField, textField, lowConf, offAir) ==
    Field(id) \o <<1>> \o ElapsedBytes \o SnrBytes \o DtBytes \o DfBytes
        \o modeField \o textField \o <<lowConf, offAir>>

TextCQ == Field(<<67, 81>>)                     \* "CQ"

DecodePayloads ==
    { DecodePayload(IdWsjtx, Field(<<126>>), TextCQ, 0, 1),          \* mode "~"
      DecodePayload(MsgId, Field(<<126>>), TextCQ, 0, 1),
      DecodePayload(IdWsjtx, NullString, TextCQ, 1, 1),              \* null mode
      DecodePayload(IdWsjtx, Field(<<>>), NullString, 1, 0),         \* empty mode
      DecodePayload(IdWsjtx, Field(<<195, 145>>), TextCQ, 0, 1),     \* a non-ASCII mode
      DecodePayload(IdWsjtx, Field(<<255>>), TextCQ, 0, 1) }         \* mode not UTF-8

BasePayload == DecodePayload(IdWsjtx, Field(<<126>>), TextCQ, 0, 1)

\* Decode payloads cut short: trailing bytes lost, or cut inside a field.
CutPayloads ==
    { SubSeq(BasePayload, 1, Len(BasePayload) - k) : k \in 1..MaxDrop }
      \cup { SubSeq(BasePayload, 1, n) : n \in {12, 20, 33} }

HeartbeatPayload == Field(IdWsjtx) \o <<0, 0, 0, 3>> \o Field(<<50, 46, 54>>) \o Field(<<97>>)

StatusPayload(submodeField) ==
    Field(IdWsjtx) \o <<0, 0, 0, 0, 0, 214, 216, 192>> \o Field(<<70, 84, 56>>)
        \o Field(<<75, 49>>) \o Field(<<45, 53>>) \o Field(<<70, 84, 56>>)
        \o <<1, 0, 1>> \o <<0, 0, 5, 220>> \o <<0, 0, 3, 232>>
        \o Field(<<65, 66>>) \o Field(<<70, 78>>) \o NullString \o <<0>>
        \o submodeField \o <<0, 2>> \o <<0, 0, 0, 50>> \o <<0, 0, 0, 15>>
        \o Field(<<68>>)

\* A QsoLogged date block for Julian day 2440588 and 45000000 ms.
DateBlock(timespec) ==
    <<0, 0, 0, 0, 0, 37, 61, 140>> \o ElapsedBytes \o <<timespec>>
        \o (IF timespec = 2 THEN <<0, 0, 14, 16>> ELSE <<>>)

QsoPayload(specOff, specOn) ==
    Field(IdWsjtx) \o DateBlock(specOff) \o Field(<<75, 49>>) \o Field(<<70, 78>>)
        \o <<0, 0, 0, 0, 0, 214, 216, 192>> \o Field(<<70, 84, 56>>)
        \o Field(<<45, 53>>) \o Field(<<45, 55>>) \o Field(<<53>>) \o NullString
        \o Field(<<84>>) \o DateBlock(specOn) \o Field(<<79>>) \o Field(<<65, 66>>)
        \o Field(<<70, 78>>) \o Field(<<>>) \o Field(<<88>>)

WsprPayload ==
    Field(IdWsjtx) \o <<1>> \o ElapsedBytes \o SnrBytes \o DtBytes
        \o <<0, 0, 0, 0, 0, 214, 216, 192>> \o <<0, 0, 0, 1>> \o Field(<<75, 49>>)
        \o Field(<<70, 78>>) \o <<0, 0, 0, 37>> \o <<0>>

\* Message numbers the monitor does not parse, the locally reserved ones
\* and one above 2^31 among them.
OtherTypes == {Num(4), Num(7), Num(13), Num(97), Num(98), Num(99), <<128, 0, 0, 2>>}

BadMagic == <<218, 203, 188, 173>>

Datagrams ==
    { Frame(MAGIC, sch, Num(MSG_DECODE), BasePayload) : sch \in Schemas }
      \cup { Frame(MAGIC, Num(2), Num(MSG_DECODE), pl) : pl \in DecodePayloads \cup CutPayloads }
      \cup { Frame(MAGIC, Num(3), Num(MSG_HEARTBEAT), HeartbeatPayload),
             Frame(MAGIC, Num(2), Num(MSG_CLOSE), Field(IdWsjtx)),
             Frame(MAGIC, Num(2), Num(MSG_CLEAR), Field(IdWsjtx)),
             Frame(MAGIC, Num(2), Num(MSG_CLEAR), Field(IdWsjtx) \o <<2>>),
             Frame(MAGIC, Num(2), Num(MSG_WSPR_DECODE), WsprPayload),
             Frame(MAGIC, Num(2), Num(MSG_ADIF_LOGGED), Field(IdWsjtx) \o Field(<<60, 97>>)) }
      \cup { Frame(MAGIC, Num(2), Num(MSG_STATUS), StatusPayload(f)) :
                f \in {Field(<<>>), NullString, Field(<<65>>)} }
      \cup { Frame(MAGIC, Num(2), Num(MSG_QSO_LOGGED), QsoPayload(a, b)) :
                a \in {0, 2}, b \in {1, 2} }
      \cup { Frame(MAGIC, Num(3), t, Field(IdWsjtx)) : t \in OtherTypes }
      \cup { Frame(BadMagic, Num(7), Num(MSG_DECODE), BasePayload),
             Frame(<<173, 188, 203, 219>>, Num(2), Num(MSG_CLOSE), <<>>) }
      \cup { SubSeq(Frame(MAGIC, Num(2), Num(MSG_DECODE), BasePayload), 1, n) :
                n \in {0, 3, 4, 8, 11} }

\* Callsigns passed to send_highlight: "N0CALL", an empty one, one with a
\* two-byte character and one with a three-byte character.
Calls == { <<78, 48, 67, 65, 76, 76>>, <<>>, <<209, 49>>, <<8364>> }

MonitorCalls == { <<78, 48, 67, 65, 76, 76>> }

\* Colour arguments: names and optional packed values.
ColorNames == {COLOR_YELLOW, COLOR_BLACK, COLOR_TRANSPARENT, COLOR_INVALID}
PackedValues == { <<>>, << <<255, 0, 0, 255>> >>, << <<1, 2, 3>> >>, << Num(0) >> }

\* Replies a caller passes to send_reply: none, one byte, a frame.
CallerReplies == { <<>>, <<7>>, ReplyHeader(Num(2)) \o <<9>> }

LibChoices == [shortRead : {"raise", "partial"}, utf8 : {"strict", "replace"}]

----------------------------------------------------------------------------
(* The monitor as a state machine.                                         *)

\* The outcomes below are tabulated as triples <<library behaviour, input,
\* outcome>>, so that each is evaluated once.

\* The outcome the table T holds for input x under library behaviour L.
Outcome(T, L, x) == (CHOOSE p \in T : p[1] = L /\ p[2] = x)[3]

\* What get_message does with each datagram.
Received == {<<L, d, get_message(L, d)>> : L \in LibChoices, d \in Datagrams}

NoLast == [op |-> "init", data |-> <<>>, status |-> TRUE, ran |-> "none",
           sent |-> <<>>, arg |-> <<>>]

\* No thread is inside get_message.
NoThreads == <<>>

Init ==
    /\ Message = <<Num(MSG_NONE)>>
    /\ Reply = <<>>
    /\ Schema = Num(0)
    /\ lib \in LibChoices
    /\ last = NoLast
    /\ goodReply = <<>>
    /\ thr = NoThreads

\* A plausible slip: the schema in the reply header is the one self.Schema
\* held when get_message was called (the header built before line 891 has
\* assigned the schema of the datagram).
GetMessageStaleSchema ==
    \E p \in Received :
        LET d == p[2]
            r == p[3]
        IN  /\ p[1] = lib
            /\ Message' = r.msg
            /\ Reply' = IF r.reply = <<>> THEN Reply
                        ELSE encode_ulong(MAGIC, "big") \o encode_ulong(Schema, "big")
                                \o SliceFrom(r.reply[1], 8)
            /\ Schema' = IF r.schema = <<>> THEN Schema ELSE r.schema[1]
            /\ last' = [NoLast EXCEPT !.op = "get", !.data = d, !.status = r.status,
                                      !.ran = r.ran]
            /\ goodReply' = IF r.ran = "decode" /\ r.status THEN r.reply[1] ELSE goodReply
            /\ UNCHANGED <<lib, thr>>

\* get_message: recvfrom returns the datagram d.
GetMessage ==
    \E p \in Received :
        LET d == p[2]
            r == p[3]
        IN  /\ p[1] = lib
            /\ Message' = r.msg
            /\ Reply' = IF r.reply = <<>> THEN Reply ELSE r.reply[1]
            /\ Schema' = IF r.schema = <<>> THEN Schema ELSE r.schema[1]
            /\ last' = [NoLast EXCEPT !.op = "get", !.data = d, !.status = r.status,
                                      !.ran = r.ran]
            /\ goodReply' = IF r.ran = "decode" /\ r.status THEN r.reply[1] ELSE goodReply
            /\ UNCHANGED <<lib, thr>>

\* get_message: recvfrom times out.
GetTimeout ==
    /\ Message' = <<Num(MSG_TIMEOUT), ErrText>>
    /\ last' = [NoLast EXCEPT !.op = "timeout"]
    /\ UNCHANGED <<Reply, Schema, lib, goodReply, thr>>

\* get_message: recvfrom raises another exception.
GetSocketError ==
    /\ Message' = <<Num(MSG_SOCKET_ERROR), ErrText>>
    /\ last' = [NoLast EXCEPT !.op = "sockerr", !.status = FALSE]
    /\ UNCHANGED <<Reply, Schema, lib, goodReply, thr>>

\* send_highlight with arguments from the given sets; sendto succeeds or
\* raises.
Highlight(calls, bgs, fgs, packed, lasts) ==
    \E call \in calls, bg \in bgs, fg \in fgs,
       bgv \in packed, fgv \in packed, lastp \in lasts, sendOk \in BOOLEAN :
        /\ last' = [NoLast EXCEPT !.op = "highlight", !.status = sendOk,
                        !.sent = send_highlight(Schema, call, bg, fg, bgv, fgv, lastp),
                        !.arg = <<call, <<bg>>, <<fg>>, bgv, fgv, <<IF lastp THEN 1 ELSE 0>> >>]
        /\ UNCHANGED <<Message, Reply, Schema, lib, goodReply, thr>>

\* send_highlight with its default colours and flag.
SendHighlight == Highlight(MonitorCalls, {COLOR_YELLOW}, {COLOR_BLACK}, {<<>>}, {TRUE})

\* send_reply; sendto succeeds or raises.
SendReply ==
    \E reply \in CallerReplies, sendOk \in BOOLEAN :
        /\ last' = [NoLast EXCEPT !.op = "reply", !.status = sendOk,
                        !.sent = send_reply(reply, Reply), !.arg = reply]
        /\ UNCHANGED <<Message, Reply, Schema, lib, goodReply, thr>>

Next == GetMessage \/ GetTimeout \/ GetSocketError \/ SendHighlight \/ SendReply

Spec == Init /\ [][Next]_vars

----------------------------------------------------------------------------
(* send_highlight as a function of its arguments and the retained schema.  *)

\* Values self.Schema can hold when send_highlight runs: the initial 0, an
\* inbound schema, and bytes 4..8 of a datagram that was not WSJT-X's.
HighlightSchemas == {Num(0), Num(2), Num(3), <<1, 0, 0, 0>>, <<255, 255, 255, 255>>}

InitHL ==
    /\ Message = <<Num(MSG_NONE)>>
    /\ Reply = <<>>
    /\ Schema \in HighlightSchemas
    /\ lib = [shortRead |-> "raise", utf8 |-> "strict"]
    /\ last = NoLast
    /\ goodReply = <<>>
    /\ thr = NoThreads

\* One call of send_highlight with any of the arguments.
HighlightOnce ==
    /\ last.op = "init"
    /\ Highlight(Calls, ColorNames, ColorNames, PackedValues, BOOLEAN)

NextHL == HighlightOnce

SpecHL == InitHL /\ [][NextHL]_vars

----------------------------------------------------------------------------
(* Two threads in get_message on one wsjtxmon object.  The object takes no *)
(* lock, so the statements of the two calls interleave; each step below is *)
(* a run of consecutive statements of one thread.                          *)

Threads == {1, 2}

\* The Decode payloads the two senders emit; they differ in the mode, the
\* text and low_confidence.
ConcPayloads ==
    << DecodePayload(IdWsjtx, Field(<<126>>), TextCQ, 0, 1),
       DecodePayload(IdWsjtx, Field(<<43>>), Field(<<55, 51>>), 1, 0) >>

\* The datagrams thread t can receive: its sender uses schema t + 1.
ConcDatagrams(t) == { Frame(MAGIC, Num(t + 1), Num(MSG_DECODE), ConcPayloads[t]) }

\* What a thread's pass through _parse_data and _parse_decode reads from its
\* datagram: the schema, the fields and the message.
ThreadReads(L, d) ==
    [schema |-> decode_ulong(L, Slice(d, 4, 8), "big").v,
     st |-> ReadFields(L, DecodeFields, SliceFrom(d, 12), Start),
     msg |-> _parse_decode(L, SliceFrom(d, 12), <<>>).msg]

Reads ==
    {<<L, d, ThreadReads(L, d)>> : L \in LibChoices,
                                   d \in ConcDatagrams(1) \cup ConcDatagrams(2)}

InitConc ==
    /\ Message = <<Num(MSG_NONE)>>
    /\ Reply = <<>>
    /\ Schema = Num(0)
    /\ lib \in LibChoices
    /\ last = NoLast
    /\ goodReply = <<>>
    /\ thr \in [Threads -> [pc : {"recv"}, data : ConcDatagrams(1) \cup ConcDatagrams(2),
                            seen : {<<>>}]]
    /\ \A t \in Threads : thr[t].data \in ConcDatagrams(t)

Goto(t, pc) == thr' = [thr EXCEPT ![t].pc = pc]

\* get_message up to the call of _parse_data: self.Message = [MSG_NONE],
\* recvfrom returns the thread's datagram.
ThreadRecv(t) ==
    /\ thr[t].pc = "recv"
    /\ Message' = <<Num(MSG_NONE)>>
    /\ Goto(t, "header")
    /\ UNCHANGED <<Reply, Schema, lib, last, goodReply>>

\* _parse_data: self.Message = [MSG_NONE], self.Schema = the schema of the
\* thread's datagram, then the magic test and the dispatch on locals.
ThreadHeader(t) ==
    /\ thr[t].pc = "header"
    /\ Message' = <<Num(MSG_NONE)>>
    /\ Schema' = Outcome(Reads, lib, thr[t].data).schema
    /\ Goto(t, "reset")
    /\ UNCHANGED <<Reply, lib, last, goodReply>>

\* _parse_decode: self.Reply = bytearray(encode.ulong(MAGIC)).
ThreadReset(t) ==
    /\ thr[t].pc = "reset"
    /\ Reply' = encode_ulong(MAGIC, "big")
    /\ Goto(t, "schema")
    /\ UNCHANGED <<Message, Schema, lib, last, goodReply>>

\* _parse_decode: self.Reply.extend(encode.ulong(self.Schema)).
ThreadSchema(t) ==
    /\ thr[t].pc = "schema"
    /\ Reply' = Reply \o encode_ulong(Schema, "big")
    /\ Goto(t, "id")
    /\ UNCHANGED <<Message, Schema, lib, last, goodReply>>

\* _parse_decode: the type code, the length of self.MsgId and self.MsgId
\* are appended.
ThreadId(t) ==
    /\ thr[t].pc = "id"
    /\ Reply' = Reply \o encode_ulong(Num(MSG_REPLY), "big")
                      \o encode_ulong(Num(Len(MsgId)), "big") \o encode_string(MsgId)
    /\ Goto(t, "numbers")
    /\ UNCHANGED <<Message, Schema, lib, last, goodReply>>

\* _parse_decode: id, new, elapsed_ms, snr, delta_time and freq are read
\* and the last four appended.
ThreadNumbers(t) ==
    /\ thr[t].pc = "numbers"
    /\ Reply' = Reply \o DecodeEchoes(SliceFrom(thr[t].data, 12),
                                      Outcome(Reads, lib, thr[t].data).st, 1, 6)
    /\ Goto(t, "strings")
    /\ UNCHANGED <<Message, Schema, lib, last, goodReply>>

\* _parse_decode: the mode and the text are read and appended.
ThreadStrings(t) ==
    /\ thr[t].pc = "strings"
    /\ Reply' = Reply \o DecodeEchoes(SliceFrom(thr[t].data, 12),
                                      Outcome(Reads, lib, thr[t].data).st, 7, 8)
    /\ Goto(t, "flags")
    /\ UNCHANGED <<Message, Schema, lib, last, goodReply>>

\* _parse_decode: low_confidence and the modifiers byte are appended and
\* self.Message is assigned.
ThreadFlags(t) ==
    /\ thr[t].pc = "flags"
    /\ Reply' = Reply \o DecodeEchoes(SliceFrom(thr[t].data, 12),
                                      Outcome(Reads, lib, thr[t].data).st, 9, 10)
    /\ Message' = Outcome(Reads, lib, thr[t].data).msg
    /\ Goto(t, "return")
    /\ UNCHANGED <<Schema, lib, last, goodReply>>

\* get_message returns True and the caller takes the reply of its datagram
\* from self.Reply.
ThreadReturn(t) ==
    /\ thr[t].pc = "return"
    /\ thr' = [thr EXCEPT ![t].pc = "done", ![t].seen = Reply]
    /\ UNCHANGED <<Message, Reply, Schema, lib, last, goodReply>>

NextConc ==
    \E t \in Threads :
        \/ ThreadRecv(t)
        \/ ThreadHeader(t)
        \/ ThreadReset(t)
        \/ ThreadSchema(t)
        \/ ThreadId(t)
        \/ ThreadNumbers(t)
        \/ ThreadStrings(t)
        \/ ThreadFlags(t)
        \/ ThreadReturn(t)

SpecConc == InitConc /\ [][NextConc]_vars

----------------------------------------------------------------------------
(* The field readers applied to one buffer: _parse_utf8 on a buffer that   *)
(* starts with a length prefix, and the reads of each per-type parser on a *)
(* payload.                                                                *)

\* String bodies "", "A", U+00D1 and "ABC", and what follows a field.
FieldBodies == { <<>>, <<65>>, <<195, 145>>, <<65, 66, 67>> }
Trailers == { <<>>, <<0>>, <<255, 255, 255, 255>>, <<66, 0, 0, 0, 1>> }

FieldBuffers ==
    { Field(b) \o t : b \in FieldBodies, t \in Trailers }
      \cup { NullString \o t : t \in Trailers }

\* The reads of each parser, with payloads for it.
Layouts ==
    { [ran |-> "decode", kinds |-> DecodeFields, payload |-> pl] :
          pl \in DecodePayloads \cup CutPayloads }
      \cup { [ran |-> "status", kinds |-> StatusFields, payload |-> StatusPayload(f)] :
                f \in {Field(<<>>), NullString, Field(<<65>>)} }
      \cup { [ran |-> "qso_logged", kinds |-> QsoFields, payload |-> QsoPayload(a, b)] :
                a \in {0, 2}, b \in {1, 2} }
      \cup { [ran |-> "wspr_decode", kinds |-> WsprFields, payload |-> WsprPayload],
             [ran |-> "heartbeat", kinds |-> <<"utf8", "ulong", "utf8", "utf8">>,
              payload |-> HeartbeatPayload],
             [ran |-> "heartbeat", kinds |-> <<"utf8", "ulong", "utf8", "utf8">>,
              payload |-> NullString \o <<0, 0, 0, 3>> \o NullString \o Field(<<97>>)],
             [ran |-> "adif_logged", kinds |-> <<"utf8", "utf8">>,
              payload |-> Field(IdWsjtx) \o Field(<<60, 97>>)],
             [ran |-> "clear", kinds |-> <<"utf8", "window">>,
              payload |-> Field(IdWsjtx) \o <<2>>],
             [ran |-> "close", kinds |-> <<"utf8">>, payload |-> Field(IdWsjtx)] }

InitParse ==
    /\ Message = <<Num(MSG_NONE)>>
    /\ Reply = <<>>
    /\ Schema = Num(0)
    /\ lib \in LibChoices
    /\ last = NoLast
    /\ goodReply = <<>>
    /\ thr = NoThreads

\* _parse_utf8 on a buffer.
ParseUtf8 ==
    \E data \in FieldBuffers :
        /\ last' = [op |-> "utf8", data |-> data, read |-> _parse_utf8(lib, data)]
        /\ UNCHANGED <<Message, Reply, Schema, lib, goodReply, thr>>

\* The reads of one parser on a payload.
ParseFields ==
    \E x \in Layouts :
        /\ last' = [op |-> "fields", data |-> x.payload, ran |-> x.ran, kinds |-> x.kinds,
                    read |-> ReadFields(lib, x.kinds, x.payload, Start)]
        /\ UNCHANGED <<Message, Reply, Schema, lib, goodReply, thr>>

\* One parser on a payload, with the message it assigns (last.out).
ParseMessage ==
    \E x \in Layouts :
        /\ last' = [op |-> "message", data |-> x.payload, ran |-> x.ran, kinds |-> x.kinds,
                    read |-> ReadFields(lib, x.kinds, x.payload, Start),
                    out |-> RunParser(lib, x.ran, x.payload, Num(2))]
        /\ UNCHANGED <<Message, Reply, Schema, lib, goodReply, thr>>

\* Elapsed milliseconds as decode.ulong returns them: from 0 to 0xFFFFFFFF,
\* 45000000 (02 AE A5 40) and 359999999 (15 75 29 FF) among them.
ElapsedValues ==
    { Canon(<<a, b, c, d>>) : a \in {0, 2, 21, 255}, b \in {0, 117, 174, 255},
                              c \in {0, 41, 165}, d \in {0, 64, 255} }

\* _make_time_str on an elapsed time.
MakeTimeStr ==
    \E ms \in ElapsedValues :
        /\ last' = [op |-> "time", data |-> ms, out |-> _make_time_str(ms)]
        /\ UNCHANGED <<Message, Reply, Schema, lib, goodReply, thr>>

NextParse == ParseUtf8 \/ ParseFields \/ ParseMessage \/ MakeTimeStr

SpecParse == InitParse /\ [][NextParse]_vars

----------------------------------------------------------------------------
(* One QColor object under its methods.  last.qc is the object, last.prev  *)
(* the object before the last call, last.array the bytes encode returned   *)
(* with last.enc the object they were made from, last.data the input of    *)
(* the last decode and last.status what it returned.  The caller makes one *)
(* run on the object: it may set it, may decode bytes of another writer    *)
(* into it, encodes it, may set it again, and decodes what encode returned *)
(* or a part of it.                                                        *)

\* Alpha arguments: left out, in range, and wider than a word.
ColorAlphas == {-1, 4, 70000}

\* Arguments of encode and setByValue: none given, all given, and values
\* wider than a byte.
EncodeArgs == { <<-1, -1, -1, -1>>, <<1, 2, 3, 4>>, <<300, -1, -1, 511>> }

\* Colours serialized by another writer: a tag other than RGB or Invalid
\* with words whose two bytes differ and a pad in use, and all bits set.
ForeignColors ==
    { <<2, 52, 18, 255, 0, 0, 255, 1, 0, 205, 171>>,
      <<255, 255, 255, 255, 255, 255, 255, 255, 255, 255, 255>> }

\* Inputs of decode made from a colour on the wire: every prefix of it, and
\* the colour followed by one more byte.
DecodeInputs(w) == { Slice(w, 0, n) : n \in 0..11 } \cup { w \o <<9>> }

\* QColor(), QColor(name=...), QColor(rgba=...).
InitColor ==
    /\ Message = <<Num(MSG_NONE)>>
    /\ Reply = <<>>
    /\ Schema = Num(0)
    /\ lib \in {L \in LibChoices : L.utf8 = "strict"}
    /\ \E name \in {<<>>, <<COLOR_GRAY>>, <<COLOR_INVALID>>},
          rgba \in {<<>>, << <<170, 187, 204, 221>> >>} :
          LET c == QColorInit(name, rgba, 255)
          IN  last = [op |-> "new", qc |-> c, prev |-> c, array |-> <<>>, enc |-> c,
                      data |-> <<>>, status |-> TRUE]
    /\ goodReply = <<>>
    /\ thr = NoThreads

\* setByName(name, alpha=alpha)
ColorSetByName ==
    /\ last.op \in {"new", "encode"}
    /\ \E name \in {COLOR_GRAY, COLOR_TRANSPARENT, COLOR_INVALID, 99}, alpha \in ColorAlphas :
           last' = [last EXCEPT !.op = "setByName", !.prev = last.qc,
                                !.qc = setByName(last.qc, name, alpha)]
    /\ UNCHANGED <<Message, Reply, Schema, lib, goodReply, thr>>

\* setByValue(red, grn, blu, alpha=alpha)
ColorSetByValue ==
    /\ last.op \in {"new", "encode"}
    /\ \E a \in EncodeArgs :
           last' = [last EXCEPT !.op = "setByValue", !.prev = last.qc,
                                !.qc = setByValue(last.qc, a[1], a[2], a[3], a[4], <<>>)]
    /\ UNCHANGED <<Message, Reply, Schema, lib, goodReply, thr>>

\* decode(data) of bytes another writer sent, before the object is encoded.
ColorDecodeForeign ==
    /\ last.array = <<>>
    /\ last.op # "decode"
    /\ \E w \in ForeignColors :
        \E data \in DecodeInputs(w) :
           LET r == QColor_decode(lib, last.qc, data)
           IN  last' = [last EXCEPT !.op = "decode", !.prev = last.qc, !.qc = r.qc,
                                    !.data = data, !.status = r.status]
    /\ UNCHANGED <<Message, Reply, Schema, lib, goodReply, thr>>

\* encode(red, grn, blu, alpha)
ColorEncode ==
    /\ last.array = <<>>
    /\ \E a \in EncodeArgs :
           last' = [last EXCEPT !.op = "encode", !.prev = last.qc,
                                !.qc = QColorSet(last.qc, a[1], a[2], a[3], a[4]),
                                !.enc = QColorSet(last.qc, a[1], a[2], a[3], a[4]),
                                !.array = QColor_encode(last.qc, a[1], a[2], a[3], a[4])]
    /\ UNCHANGED <<Message, Reply, Schema, lib, goodReply, thr>>

\* decode(data) of the bytes encode returned, of a part of them, or of them
\* with a byte after them.
ColorDecode ==
    /\ last.array # <<>>
    /\ last.op # "decode"
    /\ \E data \in DecodeInputs(last.array) \cup {last.array} :
           LET r == QColor_decode(lib, last.qc, data)
           IN  last' = [last EXCEPT !.op = "decode", !.prev = last.qc, !.qc = r.qc,
                                    !.data = data, !.status = r.status]
    /\ UNCHANGED <<Message, Reply, Schema, lib, goodReply, thr>>

NextColor ==
    ColorSetByName \/ ColorSetByValue \/ ColorDecodeForeign \/ ColorEncode \/ ColorDecode

SpecColor == InitColor /\ [][NextColor]_vars

----------------------------------------------------------------------------
(* The setters of QColor and rgba_join / rgba_split as functions of their  *)
(* arguments: one call on a colour object.  last.arg holds the arguments   *)
(* and last.out what a function returned.                                  *)

\* The 20 preset names.
PresetNames == COLOR_BLACK..COLOR_DARK_VIOLET

\* Objects a setter is called on: a new one, an Invalid one, and one filled
\* by decode with a foreign tag and a pad in use.
StartColors ==
    { QColorInit(<<>>, <<>>, 255),
      QColorInit(<<COLOR_INVALID>>, <<>>, 255),
      [cspec |-> 2, alpha |-> 4660, red |-> 255, grn |-> 65280, blu |-> 1, pad |-> 43981] }

\* Channel values in range.
Channels == {0, 1, 128, 255}

InitSet ==
    /\ Message = <<Num(MSG_NONE)>>
    /\ Reply = <<>>
    /\ Schema = Num(0)
    /\ lib = [shortRead |-> "raise", utf8 |-> "strict"]
    /\ \E c \in StartColors :
          last = [op |-> "new", qc |-> c, prev |-> c, arg |-> <<>>, out |-> <<>>]
    /\ goodReply = <<>>
    /\ thr = NoThreads

\* setByName(name, alpha=alpha)
SetByNameOnce ==
    /\ last.op = "new"
    /\ \E name \in PresetNames \cup {COLOR_INVALID, 99}, alpha \in ColorAlphas :
           last' = [op |-> "setByName", qc |-> setByName(last.qc, name, alpha),
                    prev |-> last.qc, arg |-> <<name, alpha>>, out |-> <<>>]
    /\ UNCHANGED <<Message, Reply, Schema, lib, goodReply, thr>>

\* setByValue(red, grn, blu, alpha=alpha, rgba=rgba)
SetByValueOnce ==
    /\ last.op = "new"
    /\ \E a \in EncodeArgs, rgba \in PackedValues \cup { << <<0, 187, 204, 0>> >> } :
           last' = [op |-> "setByValue",
                    qc |-> setByValue(last.qc, a[1], a[2], a[3], a[4], rgba),
                    prev |-> last.qc, arg |-> <<a, rgba>>, out |-> <<>>]
    /\ UNCHANGED <<Message, Reply, Schema, lib, goodReply, thr>>

\* rgba_split(rgba_join(red, grn, blu, alpha))
JoinSplitOnce ==
    /\ last.op = "new"
    /\ \E r \in Channels, g \in Channels, b \in Channels, a \in Channels :
           last' = [op |-> "join", qc |-> last.qc, prev |-> last.qc,
                    arg |-> <<r, g, b, a>>,
                    out |-> rgba_split(rgba_join(r, g, b, a))]
    /\ UNCHANGED <<Message, Reply, Schema, lib, goodReply, thr>>

NextSet == SetByNameOnce \/ SetByValueOnce \/ JoinSplitOnce

SpecSet == InitSet /\ [][NextSet]_vars

----------------------------------------------------------------------------
(* Reading a datagram by the wire layout of the protocol, for the          *)
(* properties below.                                                       *)

HasMagic(d) == Len(d) >= 4 /\ SubSeq(d, 1, 4) = MAGIC

\* The type code of a datagram of at least 12 bytes.
TypeCode(d) == Canon(SubSeq(d, 9, 12))

IsDecodeFrame(d) == Len(d) >= 12 /\ HasMagic(d) /\ TypeCode(d) = Num(MSG_DECODE)

SupportedTypes ==
    {Num(MSG_HEARTBEAT), Num(MSG_STATUS), Num(MSG_DECODE), Num(MSG_CLEAR),
     Num(MSG_QSO_LOGGED), Num(MSG_CLOSE), Num(MSG_WSPR_DECODE), Num(MSG_ADIF_LOGGED)}

\* The number of string bytes the length prefix at offset off declares: none
\* for the null sentinel.
Declared(d, off) ==
    IF Slice(d, off, off + 4) = NullString THEN 0 ELSE ToIndex(Canon(Slice(d, off, off + 4)))

\* The offsets of the fields of a Decode datagram.
NewAt(d) == 12 + 4 + Declared(d, 12)
ModeAt(d) == NewAt(d) + 1 + 4 + 4 + 8 + 4
TextAt(d) == ModeAt(d) + 4 + Declared(d, ModeAt(d))
LowConfAt(d) == TextAt(d) + 4 + Declared(d, TextAt(d))

\* The declared field lengths fit in the buffer.
DecodeFits(d) == IsDecodeFrame(d) /\ LowConfAt(d) + 2 <= Len(d)

\* What follows the header and the id string of a reply.
ReplyBody(r) == SliceFrom(r, 12 + 4 + Declared(r, 12))

\* The field byte ranges of d that the reply echoes, with the modifiers byte.
EchoedRanges(d) ==
    Slice(d, NewAt(d) + 1, ModeAt(d)) \o Slice(d, ModeAt(d), TextAt(d))
        \o Slice(d, TextAt(d), LowConfAt(d)) \o Slice(d, LowConfAt(d), LowConfAt(d) + 1)
        \o <<0>>

Received1 == last.op = "get"

----------------------------------------------------------------------------
(* The properties.                                                         *)

\* C1: for every Decode datagram whose declared field lengths fit in the
\* buffer, what follows the header and the id string of the stored reply is
\* the datagram's byte ranges for elapsed_ms, snr, delta_time, delta_freq,
\* the mode field, the text field and low_confidence, then one zero byte.
C1_ReplyEchoesFieldBytes ==
    (Received1 /\ DecodeFits(last.data)) => ReplyBody(Reply) = EchoedRanges(last.data)

\* C2: the reply built while parsing a Decode datagram starts with the magic
\* number, the schema number of that datagram's own header and type code 4,
\* each as a big-endian unsigned 32-bit value.
C2_ReplyHeaderOfOwnFrame ==
    (Received1 /\ IsDecodeFrame(last.data))
        => Slice(Reply, 0, 12) = MAGIC \o Slice(last.data, 4, 8) \o <<0, 0, 0, 4>>

C2_Witness ==
    /\ Received1 /\ IsDecodeFrame(last.data)
    /\ Slice(last.data, 4, 8) = <<0, 0, 0, 3>>
    /\ Slice(Reply, 0, 12) = MAGIC \o <<0, 0, 0, 3, 0, 0, 0, 4>>
    /\ Len(Reply) > 12

\* C3: the id string field of the reply derived from a Decode datagram is
\* the id string field of that datagram.
C3_ReplyIdIsInboundId ==
    (Received1 /\ DecodeFits(last.data))
        => Slice(Reply, 12, 16 + Declared(Reply, 12))
             = Slice(last.data, 12, 16 + Declared(last.data, 12))

\* C4: a datagram of at least 12 bytes whose first 4 bytes are not the magic
\* number yields the header-invalid outcome: the message is [MSG_NONE], no
\* per-type parser runs, the stored reply is as it was and get_message
\* returns True.
C4_BadMagicIsHeaderInvalid ==
    [][ (last'.op = "get" /\ Len(last'.data) >= 12 /\ ~HasMagic(last'.data))
          => /\ Message' = <<Num(MSG_NONE)>>
             /\ last'.ran = "none"
             /\ last'.status
             /\ Reply' = Reply ]_vars

C4_Witness ==
    /\ Received1 /\ Len(last.data) >= 12 /\ ~HasMagic(last.data)
    /\ TypeCode(last.data) = Num(MSG_DECODE)
    /\ Message = <<Num(MSG_NONE)>> /\ last.status
    /\ Reply # <<>>

\* C5: a datagram shorter than 12 bytes yields the header-invalid outcome
\* and no per-type parser is invoked.
C5_ShortIsHeaderInvalid ==
    (Received1 /\ Len(last.data) < 12)
        => (Message = <<Num(MSG_NONE)>> /\ last.ran = "none")

\* C6: a datagram with the magic number whose type code is none of the
\* supported ones raises no error and yields the message [type_code], with
\* the stored reply as it was.
C6_UnsupportedCarriesCode ==
    [][ (last'.op = "get" /\ Len(last'.data) >= 12 /\ HasMagic(last'.data)
            /\ TypeCode(last'.data) \notin SupportedTypes)
          => /\ last'.status
             /\ Message' = <<TypeCode(last'.data)>>
             /\ Reply' = Reply ]_vars

C6_Witness ==
    /\ Received1 /\ Len(last.data) >= 12 /\ HasMagic(last.data)
    /\ TypeCode(last.data) = Num(MSG_REPLY)
    /\ Message = <<Num(MSG_REPLY)>>
    /\ Reply # <<>>

\* C7: after any sequence of calls the stored reply is the complete reply of
\* the most recent Decode datagram whose parse completed, and is empty when
\* there has been none.
C7_StoredReplyIsLastGoodReply == Reply = goodReply

\* C8: when two threads process Decode datagrams with different schema
\* numbers on one monitor object, the reply each thread finds after its
\* get_message returns carries the schema number of its own datagram and
\* only the field bytes of its own datagram.
C8_ConcurrentRepliesOwnFrame ==
    \A t \in DOMAIN thr :
        thr[t].pc = "done"
            => /\ Slice(thr[t].seen, 4, 8) = Slice(thr[t].data, 4, 8)
               /\ ReplyBody(thr[t].seen) = EchoedRanges(thr[t].data)

\* The Color bytes of a colour given by name, or by packed value when one
\* is supplied.
ColorOf(name, rgba) ==
    QColorBytes(IF rgba # <<>>
                THEN setByValue(QColorInit(<<name>>, <<>>, 255), -1, -1, -1, -1, rgba)
                ELSE QColorInit(<<name>>, <<>>, 255))

\* Where the callsign field of a HighlightCall datagram starts and where it
\* ends, for a callsign of n bytes.
CallAt == 12 + 4 + Len(encode_string(MsgId))
CallEnd(n) == CallAt + 4 + n

\* C9: a HighlightCall datagram is, in this order, the magic number, the
\* schema and type code 13 as big-endian 32-bit values, the id string after
\* its 4-byte prefix, the callsign after its 4-byte prefix, the 11-byte
\* background Color, the 11-byte foreground Color and one flag byte that is
\* 1 when last is true and 0 otherwise; it is 12 + (4 + id bytes) +
\* (4 + callsign bytes) + 23 bytes long.
C9_HighlightLayout ==
    last.op = "highlight" =>
        LET d == last.sent
            n == Len(encode_string(last.arg[1]))
        IN  /\ Len(d) = 12 + (4 + Len(encode_string(MsgId))) + (4 + n) + 23
            /\ Slice(d, 0, 4) = MAGIC
            /\ Slice(d, 4, 8) = PadLeft(Schema, 4)
            /\ Slice(d, 8, 12) = <<0, 0, 0, 13>>
            /\ Slice(d, 16, CallAt) = encode_string(MsgId)
            /\ Slice(d, CallAt + 4, CallEnd(n)) = encode_string(last.arg[1])
            /\ Slice(d, CallEnd(n), CallEnd(n) + 11) = ColorOf(last.arg[2][1], last.arg[4])
            /\ Slice(d, CallEnd(n) + 11, CallEnd(n) + 22)
                  = ColorOf(last.arg[3][1], last.arg[5])
            /\ Slice(d, CallEnd(n) + 22, CallEnd(n) + 23) = last.arg[6]

C9_Witness ==
    /\ last.op = "highlight"
    /\ last.arg[1] = <<209, 49>> /\ last.arg[6] = <<0>>
    /\ last.arg[2] = <<COLOR_YELLOW>> /\ last.arg[3] = <<COLOR_INVALID>>
    /\ last.arg[5] # <<>>
    /\ Schema = Num(3)
    /\ Len(last.sent) = 12 + 12 + 7 + 23

\* C10: in a HighlightCall datagram the length prefix of the id string and
\* the length prefix of the callsign each equal the number of UTF-8 bytes
\* of the string that follows.
C10_PrefixIsByteCount ==
    last.op = "highlight" =>
        /\ Slice(last.sent, 12, 16) = PadLeft(Num(Len(encode_string(MsgId))), 4)
        /\ Slice(last.sent, CallAt, CallAt + 4)
              = PadLeft(Num(Len(encode_string(last.arg[1]))), 4)

\* The 11 bytes of a Color on the wire: the tag, then alpha, red, green,
\* blue and pad, low byte first.
ColorWire(tag, alpha, red, grn, blu, pad) ==
    <<tag, alpha % 256, alpha \div 256, red % 256, red \div 256, grn % 256, grn \div 256,
      blu % 256, blu \div 256, pad % 256, pad \div 256>>

\* The Color of a packed value red<<24 | green<<16 | blue<<8 | alpha.
PackedWire(v) ==
    ColorWire(CSPEC_RGB, PadLeft(v, 4)[4], PadLeft(v, 4)[1], PadLeft(v, 4)[2],
              PadLeft(v, 4)[3], 0)

\* The Color of the preset names passed below.
NamedWire(name) ==
    CASE name = COLOR_YELLOW -> ColorWire(CSPEC_RGB, 255, 255, 255, 0, 0)
      [] name = COLOR_BLACK -> ColorWire(CSPEC_RGB, 255, 0, 0, 0, 0)
      [] name = COLOR_TRANSPARENT -> ColorWire(CSPEC_RGB, 0, 0, 0, 0, 0)
      [] name = COLOR_INVALID -> ColorWire(CSPEC_INVALID, 65535, 65535, 65535, 65535, 0)

\* The background and the foreground Color of a HighlightCall datagram: the
\* 22 bytes before the flag byte.
BgOf(d) == Slice(d, Len(d) - 23, Len(d) - 12)
FgOf(d) == Slice(d, Len(d) - 12, Len(d) - 1)

\* C11: in a HighlightCall datagram a colour for which a packed value was
\* passed is the RGB colour of that value whatever name was passed with it,
\* COLOR_INVALID included, and a colour for which none was passed is the
\* colour of its name.
C11_PackedOverridesName ==
    last.op = "highlight" =>
        /\ BgOf(last.sent) = IF last.arg[4] # <<>> THEN PackedWire(last.arg[4][1])
                              ELSE NamedWire(last.arg[2][1])
        /\ FgOf(last.sent) = IF last.arg[5] # <<>> THEN PackedWire(last.arg[5][1])
                              ELSE NamedWire(last.arg[3][1])

C11_Witness ==
    /\ last.op = "highlight"
    /\ last.arg[2] = <<COLOR_INVALID>> /\ last.arg[4] = << <<255, 0, 0, 255>> >>
    /\ BgOf(last.sent) = <<1, 255, 0, 255, 0, 0, 0, 0, 0, 0, 0>>
    /\ last.arg[3] = <<COLOR_YELLOW>> /\ last.arg[5] = << <<>> >>
    /\ FgOf(last.sent) = <<1, 0, 0, 0, 0, 0, 0, 0, 0, 0, 0>>

\* The defaults of send_highlight: bg_name, fg_name, bg_rgba, fg_rgba, last.
DefaultHighlight == << <<COLOR_YELLOW>>, <<COLOR_BLACK>>, <<>>, <<>>, <<1>> >>

\* C12: the datagram of send_highlight("N0CALL") with the default arguments
\* has the background Color RGB (255, 255, 0) with alpha 255, the foreground
\* Color RGB (0, 0, 0) with alpha 255 and 1 as its last byte.
C12_DefaultHighlightBytes ==
    (last.op = "highlight" /\ last.arg[1] \in MonitorCalls
        /\ SubSeq(last.arg, 2, 6) = DefaultHighlight)
      => /\ BgOf(last.sent) = <<1, 255, 0, 255, 0, 255, 0, 0, 0, 0, 0>>
         /\ FgOf(last.sent) = <<1, 255, 0, 0, 0, 0, 0, 0, 0, 0, 0>>
         /\ last.sent[Len(last.sent)] = 1

C12_Witness ==
    /\ last.op = "highlight"
    /\ last.arg = <<<<78, 48, 67, 65, 76, 76>>, <<COLOR_YELLOW>>, <<COLOR_BLACK>>,
                    <<>>, <<>>, <<1>> >>
    /\ Schema = Num(3)
    /\ last.sent = <<173, 188, 203, 218, 0, 0, 0, 3, 0, 0, 0, 13>>
                     \o <<0, 0, 0, 8, 87, 83, 74, 84, 88, 77, 79, 78>>
                     \o <<0, 0, 0, 6, 78, 48, 67, 65, 76, 76>>
                     \o <<1, 255, 0, 255, 0, 255, 0, 0, 0, 0, 0>>
                     \o <<1, 255, 0, 0, 0, 0, 0, 0, 0, 0, 0>> \o <<1>>

\* C13: send_reply hands to sendto the caller's reply whenever the caller
\* passed one, and the stored reply only when the caller passed none.
C13_SendReplyVerbatim ==
    last.op = "reply" => last.sent = (IF last.arg # <<>> THEN last.arg ELSE Reply)

\* Whether the bytes b are well-formed UTF-8.
WellFormed(b) == Utf8Decode([shortRead |-> "raise", utf8 |-> "strict"], b, 1).ok

\* What a string field at offset off of d holds by the wire layout: the
\* bytes after the prefix, as many as the prefix declares.
FieldBytes(d, off) == Slice(d, off + 4, off + 4 + Declared(d, off))

\* The field at off is there in full and is text.
FieldPresent(d, off) ==
    off + 4 + Declared(d, off) <= Len(d) /\ WellFormed(FieldBytes(d, off))

\* C14: a length-prefixed field with length 0xFFFFFFFF reads as the empty
\* string and consumes 4 bytes whatever follows; with any other declared
\* length L the string is the next L bytes; and each parser advances its
\* index by 4 + L over a string field, so that the next field is read right
\* after it.
C14_FieldConsumption ==
    /\ (last.op = "utf8" /\ last.read.ok)
          => /\ last.read.len = Declared(last.data, 0)
             /\ Slice(last.data, 0, 4) = NullString
                  => (last.read.str = <<>> /\ last.read.len = 0)
             /\ (Slice(last.data, 0, 4) # NullString /\ FieldPresent(last.data, 0))
                  => encode_string(last.read.str) = FieldBytes(last.data, 0)
    /\ last.op = "fields"
          => \A k \in 1..Len(last.read.vals) :
                last.kinds[k] = "utf8"
                  => /\ last.read.n[k] = 4 + Declared(last.data, last.read.at[k])
                     /\ k < Len(last.read.vals)
                          => last.read.at[k + 1] = last.read.at[k] + 4
                                                     + Declared(last.data, last.read.at[k])
                     /\ FieldPresent(last.data, last.read.at[k])
                          => encode_string(last.read.vals[k])
                               = FieldBytes(last.data, last.read.at[k])

C14_Witness ==
    /\ last.op = "fields" /\ last.ran = "status"
    /\ last.read.ok /\ Len(last.read.vals) = 21
    /\ Slice(last.data, last.read.at[14], last.read.at[14] + 4) = NullString
    /\ last.read.vals[14] = <<>> /\ last.read.n[14] = 4
    /\ last.read.vals[13] = <<70, 78>> /\ last.read.n[13] = 6
    /\ last.read.vals[15] = Num(0)
    /\ last.read.vals[21] = <<68>>
    /\ last.read.index = Len(last.data)

\* C15: a Decode datagram that ends before the last of its fields does
\* makes the parse fail: get_message reports the failure and leaves no Decode
\* message built from the bytes that were there.
C15_PastEndFails ==
    (Received1 /\ IsDecodeFrame(last.data) /\ ~DecodeFits(last.data))
        => (~last.status /\ Message[1] # Num(MSG_DECODE))

\* What get_message makes of the datagram d by itself.
Alone(d) == Outcome(Received, lib, d)

WordLE(v) == <<v % 256, (v \div 256) % 256>>

\* The bytes of the colour object c on the wire (specification 4.6).
WireOf(c) ==
    <<c.cspec % 256>> \o WordLE(c.alpha) \o WordLE(c.red) \o WordLE(c.grn)
        \o WordLE(c.blu) \o WordLE(c.pad)

\* C17: what encode returns is 11 bytes: the tag, then alpha, red, green,
\* blue and pad of the object as encode left it, two bytes each, low byte
\* first; so for the Invalid colour and for every other state of the object.
C17_EncodeElevenBytes ==
    last.op = "encode" =>
        /\ Len(last.array) = 11
        /\ last.array = WireOf(last.qc)

C17_Witness ==
    /\ last.op = "encode"
    /\ last.qc.cspec = CSPEC_INVALID /\ last.qc.red = 65535 /\ last.qc.alpha = 65535
    /\ last.array = <<0, 255, 255, 255, 255, 255, 255, 255, 255, 0, 0>>

\* C18: decoding the bytes encode returned, into the object in whatever
\* state it then is, returns true and sets cspec, alpha, red, grn, blu and
\* pad to the values that were encoded: the tag as a byte and each field as
\* a 16-bit word.
C18_DecodeInvertsEncode ==
    (last.op = "decode" /\ last.array # <<>> /\ last.data = last.array) =>
        /\ last.status
        /\ last.qc = [cspec |-> last.enc.cspec % 256, alpha |-> last.enc.alpha % 65536,
                      red |-> last.enc.red % 65536, grn |-> last.enc.grn % 65536,
                      blu |-> last.enc.blu % 65536, pad |-> last.enc.pad % 65536]

C18_Witness ==
    /\ last.op = "decode" /\ last.data = last.array /\ last.status
    /\ last.array = <<2, 52, 18, 255, 0, 0, 255, 1, 0, 205, 171>>
    /\ last.prev = [cspec |-> CSPEC_INVALID, red |-> 65535, grn |-> 65535, blu |-> 65535,
                    alpha |-> 65535, pad |-> 0]
    /\ last.qc = [cspec |-> 2, alpha |-> 4660, red |-> 255, grn |-> 65280, blu |-> 1,
                  pad |-> 43981]

\* The fields of a Color in wire order, and the offset at which each ends.
ColorFields == <<"cspec", "alpha", "red", "grn", "blu", "pad">>
FieldEnd(i) == 2 * i - 1

\* The value the bytes of field i have in data, when they are all there.
FieldOnWire(data, i) ==
    IF i = 1 THEN data[1] ELSE data[FieldEnd(i) - 1] + 256 * data[FieldEnd(i)]

\* C19: decode returns true exactly when it was given 11 bytes or more; a
\* field whose bytes are all in the input is set from them, and every other
\* field keeps the value it had before the call.
C19_DecodeShortInput ==
    last.op = "decode" =>
        /\ last.status = (Len(last.data) >= 11)
        /\ \A i \in 1..6 :
              last.qc[ColorFields[i]] =
                  IF Len(last.data) >= FieldEnd(i) THEN FieldOnWire(last.data, i)
                  ELSE last.prev[ColorFields[i]]

C19_Witness ==
    /\ last.op = "decode" /\ ~last.status
    /\ last.data = <<2, 52, 18, 255>>
    /\ last.prev = [cspec |-> CSPEC_RGB, red |-> 170, grn |-> 187, blu |-> 204,
                    alpha |-> 221, pad |-> 0]
    /\ last.qc = [cspec |-> 2, red |-> 170, grn |-> 187, blu |-> 204,
                  alpha |-> 4660, pad |-> 0]

\* C20: an object set by the name COLOR_INVALID, encoded as it is and
\* decoded from the bytes encode returned has the colour spec Invalid and
\* red, green, blue and alpha all 0xFFFF.
C20_InvalidRoundTrip ==
    (last.op = "decode" /\ last.array # <<>> /\ last.data = last.array
        /\ last.enc = setByName(last.enc, COLOR_INVALID, -1))
      => /\ last.status
         /\ last.qc.cspec = CSPEC_INVALID
         /\ last.qc.red = 65535 /\ last.qc.grn = 65535
         /\ last.qc.blu = 65535 /\ last.qc.alpha = 65535

C20_Witness ==
    /\ last.op = "decode" /\ last.data = last.array /\ last.status
    /\ last.enc = setByName(last.enc, COLOR_INVALID, -1)
    /\ last.prev = last.enc
    /\ last.data = <<CSPEC_INVALID, 255, 255, 255, 255, 255, 255, 255, 255, 0, 0>>
    /\ last.qc = [cspec |-> CSPEC_INVALID, red |-> 65535, grn |-> 65535, blu |-> 65535,
                  alpha |-> 65535, pad |-> 0]

\* C21: whatever calls were made on a colour object, an Invalid colour has
\* red, green, blue and alpha all 0xFFFF and any other colour has each of the
\* four in 0..255.
C21_DataModelInvariant ==
    IF last.qc.cspec = CSPEC_INVALID
    THEN last.qc.red = 65535 /\ last.qc.grn = 65535
            /\ last.qc.blu = 65535 /\ last.qc.alpha = 65535
    ELSE last.qc.red \in 0..255 /\ last.qc.grn \in 0..255
            /\ last.qc.blu \in 0..255 /\ last.qc.alpha \in 0..255

\* The RGB triples of the 20 presets, in the order of their names
\* (COLOR_BLACK first).
PresetRGB ==
    << <<0, 0, 0>>, <<255, 255, 255>>, <<128, 128, 128>>, <<160, 160, 164>>,
       <<192, 192, 192>>, <<255, 0, 0>>, <<0, 255, 0>>, <<0, 0, 255>>,
       <<0, 255, 255>>, <<255, 0, 255>>, <<255, 255, 0>>, <<128, 0, 0>>,
       <<0, 128, 0>>, <<0, 0, 128>>, <<0, 128, 128>>, <<128, 0, 128>>,
       <<128, 128, 0>>, <<0, 0, 0>>, <<255, 165, 0>>, <<148, 0, 211>> >>

\* C22: setByName with a preset name leaves the colour spec RGB, pad 0, the
\* triple of the preset, and as alpha the argument, 255 when none was given;
\* the transparent preset leaves alpha 0 whatever was given.
C22_PresetByName ==
    (last.op = "setByName" /\ last.arg[1] \in PresetNames) =>
        /\ last.qc.cspec = CSPEC_RGB
        /\ last.qc.pad = 0
        /\ <<last.qc.red, last.qc.grn, last.qc.blu>>
              = PresetRGB[last.arg[1] - COLOR_BLACK + 1]
        /\ last.qc.alpha = IF last.arg[1] = COLOR_TRANSPARENT THEN 0
                           ELSE IF last.arg[2] = -1 THEN 255
                           ELSE last.arg[2]

C22_Witness ==
    /\ last.op = "setByName"
    /\ last.arg = <<COLOR_TRANSPARENT, 4>>
    /\ last.prev.cspec = 2 /\ last.prev.pad = 43981
    /\ last.qc = [cspec |-> CSPEC_RGB, red |-> 0, grn |-> 0, blu |-> 0, alpha |-> 0,
                  pad |-> 0]

\* The byte of the packed value v that is k bytes from its low end:
\* (v >> 8k) & 0xFF.
PackedByte(v, k) == PadLeft(v, 4)[4 - k]

\* C23: setByValue with a packed value v leaves red = (v>>24)&0xFF,
\* green = (v>>16)&0xFF, blue = (v>>8)&0xFF and alpha = v&0xFF with the
\* colour spec RGB, whatever channel arguments came with it; and splitting
\* the value joined from four channels in 0..255 returns the four channels.
C23_PackedValue ==
    /\ (last.op = "setByValue" /\ last.arg[2] # <<>>) =>
          /\ last.qc.cspec = CSPEC_RGB
          /\ last.qc.red = PackedByte(last.arg[2][1], 3)
          /\ last.qc.grn = PackedByte(last.arg[2][1], 2)
          /\ last.qc.blu = PackedByte(last.arg[2][1], 1)
          /\ last.qc.alpha = PackedByte(last.arg[2][1], 0)
    /\ last.op = "join" =>
          last.out = [red |-> last.arg[1], grn |-> last.arg[2], blu |-> last.arg[3],
                      alpha |-> last.arg[4]]

C23_Witness ==
    /\ last.op = "setByValue"
    /\ last.arg = << <<1, 2, 3, 4>>, << <<0, 187, 204, 0>> >> >>
    /\ last.prev.cspec = CSPEC_INVALID
    /\ last.qc = [cspec |-> CSPEC_RGB, red |-> 0, grn |-> 187, blu |-> 204, alpha |-> 0,
                  pad |-> 0]

\* The reads of a date block that starts with read k (date, time, timespec,
\* timezone offset, then the field after the block): the offset takes 4
\* bytes when the timespec is 2 and none otherwise, and the field after the
\* block is read 17 or 13 bytes after the start of the block.
DateBlockRead(r, k) ==
    /\ r.n[k + 3] = (IF r.vals[k + 2] = Num(2) THEN 4 ELSE 0)
    /\ r.at[k + 4] = r.at[k] + (IF r.vals[k + 2] = Num(2) THEN 17 ELSE 13)

\* C24: in the QsoLogged parser each of the two date blocks (time off, the
\* reads from the second on; time on, from the fifteenth on) takes a 4-byte
\* timezone offset exactly when its timespec byte is 2.
C24_TimezoneOnlyWithTimespec2 ==
    (last.op = "fields" /\ last.ran = "qso_logged" /\ last.read.ok) =>
        /\ Len(last.read.vals) = Len(QsoFields)
        /\ DateBlockRead(last.read, 2)
        /\ DateBlockRead(last.read, 15)

C24_Witness ==
    /\ last.op = "fields" /\ last.ran = "qso_logged" /\ last.read.ok
    /\ last.read.vals[4] = Num(0) /\ last.read.vals[17] = Num(2)
    /\ last.read.at[2] = 10 /\ last.read.at[6] = 23
    /\ last.read.at[19] = last.read.at[15] + 17
    /\ last.read.vals[6] = <<75, 49>> /\ last.read.vals[19] = <<79>>
    /\ last.read.index = Len(last.data)

\* The offset of the submode field in a Status payload: after the id, the
\* dial frequency, four strings, three flags, two delta frequencies, three
\* strings and the watchdog flag.
RECURSIVE AfterStrings(_, _, _)
AfterStrings(d, off, k) ==
    IF k = 0 THEN off ELSE AfterStrings(d, off + 4 + Declared(d, off), k - 1)

SubmodeAt(d) == AfterStrings(d, AfterStrings(d, AfterStrings(d, 0, 1) + 8, 4) + 3 + 8, 3) + 1

\* C25: the submode of a parsed Status message is "." when the submode
\* field on the wire declares no bytes (length 0 or the null sentinel) and
\* the string of the field otherwise, and in both cases the fields after it
\* are the ones that follow the field on the wire.
C25_SubmodePlaceholder ==
    (last.op = "message" /\ last.ran = "status" /\ last.out.ok) =>
        LET at == SubmodeAt(last.data)
            next == at + 4 + Declared(last.data, at)
        IN  /\ last.out.msg[17] = IF Declared(last.data, at) = 0 THEN <<46>>
                                  ELSE FieldBytes(last.data, at)
            /\ last.out.msg[18] = Canon(Slice(last.data, next, next + 1))
            /\ last.out.msg[19] = Canon(Slice(last.data, next + 1, next + 2))
            /\ last.out.msg[20] = Canon(Slice(last.data, next + 2, next + 6))
            /\ last.out.msg[21] = Canon(Slice(last.data, next + 6, next + 10))
            /\ last.out.msg[22] = FieldBytes(last.data, next + 10)

C25_Witness ==
    /\ last.op = "message" /\ last.ran = "status" /\ last.out.ok
    /\ Slice(last.data, SubmodeAt(last.data), SubmodeAt(last.data) + 4) = NullString
    /\ last.out.msg[17] = <<46>>
    /\ last.out.msg[19] = Num(2) /\ last.out.msg[20] = Num(50)
    /\ last.out.msg[21] = Num(15) /\ last.out.msg[22] = <<68>>

\* The offset of rx_df in a Status payload: after the id, the dial
\* frequency, four strings and three flags.
RxDfAt(d) == AfterStrings(d, AfterStrings(d, 0, 1) + 8, 4) + 3

\* C28: the parsed Status message has its fields in the order of the wire
\* layout: after the decoding flag comes the delta frequency read first
\* (rx_df), then the one read second (tx_df).
C28_StatusWireOrder ==
    (last.op = "message" /\ last.ran = "status" /\ last.out.ok) =>
        /\ last.out.msg[10] = Canon(Slice(last.data, RxDfAt(last.data) - 1, RxDfAt(last.data)))
        /\ last.out.msg[11] = Canon(Slice(last.data, RxDfAt(last.data), RxDfAt(last.data) + 4))
        /\ last.out.msg[12] = Canon(Slice(last.data, RxDfAt(last.data) + 4,
                                          RxDfAt(last.data) + 8))

\* A Clear datagram whose id string is there in full, and where its id ends.
IsClearFrame(d) ==
    /\ Len(d) >= 16 /\ HasMagic(d) /\ TypeCode(d) = Num(MSG_CLEAR)
    /\ FieldPresent(d, 12)
IdEnd(d) == 12 + 4 + Declared(d, 12)

\* C26: a Clear datagram parses without an error to a Clear message whose
\* window is the byte after the id string when there is one, and 0 when the
\* datagram ends with the id string.
C26_ClearWindowOptional ==
    (Received1 /\ IsClearFrame(last.data)) =>
        /\ last.status
        /\ Message = <<Num(MSG_CLEAR), FieldBytes(last.data, 12),
                       IF Len(last.data) > IdEnd(last.data)
                       THEN Canon(<<last.data[IdEnd(last.data) + 1]>>)
                       ELSE Num(0)>>

C26_Witness ==
    /\ Received1 /\ IsClearFrame(last.data) /\ last.status
    /\ Len(last.data) = IdEnd(last.data)
    /\ Message = <<Num(MSG_CLEAR), IdWsjtx, Num(0)>>
    /\ lib.shortRead = "raise"

\* floor(ms / 1000) for the unsigned 32-bit value ms, computed on its two
\* 16-bit halves: ms = hi * 65536 + lo and 65536 = 65 * 1000 + 536.
SecondsOf(ms) ==
    LET hi == PadLeft(ms, 4)[1] * 256 + PadLeft(ms, 4)[2]
        lo == PadLeft(ms, 4)[3] * 256 + PadLeft(ms, 4)[4]
    IN  hi * 65 + (hi * 536 + lo) \div 1000

\* The number written by the two characters of s from position i.
TwoDigits(s, i) == (s[i] - 48) * 10 + (s[i + 1] - 48)

\* C27: the time string of any unsigned 32-bit number of milliseconds is six
\* digits HHMMSS with MM < 60, SS < 60 and HH*3600 + MM*60 + SS the whole
\* seconds of the value; 45000000 gives "123000".
C27_TimeStringSixDigits ==
    last.op = "time" =>
        /\ Len(last.out) = 6
        /\ \A i \in 1..6 : last.out[i] \in 48..57
        /\ TwoDigits(last.out, 3) < 60
        /\ TwoDigits(last.out, 5) < 60
        /\ TwoDigits(last.out, 1) * 3600 + TwoDigits(last.out, 3) * 60
              + TwoDigits(last.out, 5) = SecondsOf(last.data)
        /\ last.data = <<2, 174, 165, 64>> => last.out = <<49, 50, 51, 48, 48, 48>>

\* C29: a get_message call that receives a datagram whose first four bytes
\* are not the magic number leaves self.Schema and self.Reply as they were.
C29_BadMagicKeepsSchema ==
    [][(last'.op = "get" /\ Len(last'.data) >= 12 /\ ~HasMagic(last'.data))
          => (Schema' = Schema /\ Reply' = Reply)]_vars

\* C30: the message left for a received datagram that starts with the magic
\* number does not have 97, 98 or 99 as its tag.
C30_ReservedCodesNotFromWire ==
    (Received1 /\ HasMagic(last.data)) =>
        Message[1] \notin {Num(MSG_SOCKET_ERROR), Num(MSG_TIMEOUT), Num(MSG_NONE)}

====
